---- MODULE Spec2Model ----
(***************************************************************************)
(* A model of the serverless market-data pipeline:                         *)
(*   - the ingestor (infra/modules/ingestor/src/data_ingestor.py):         *)
(*     validate_record, process_stock_data, write_to_s3 and the            *)
(*     marker-deduplicated lambda_handler;                                 *)
(*   - the analyzer (infra/modules/analyzer/src/data_analyzer.py):         *)
(*     compute_metrics, compute_aggregates, call_bedrock and its retry     *)
(*     loop, store_analysis and the lambda_handler;                        *)
(*   - the notifier (infra/modules/notifier/src/notifier_lambda.py):       *)
(*     deserialize_dynamodb_item, create_html_email and the handler.       *)
(*                                                                         *)
(* Strings the code parses are sequences of one-character strings, so that *)
(* float(), int() and strptime() are modelled by what they accept and      *)
(* return.  Every call of an external collaborator (object store, event    *)
(* bus, metric emitter, text-completion service) either answers or raises, *)
(* chosen nondeterministically.                                            *)
(***************************************************************************)
EXTENDS Integers, Sequences, FiniteSets, TLC

VARIABLES
    \* ---- validate_record applied to one flattened record
    record,         \* the record handed to validate_record
    vr,             \* its return value (is_valid, error), or NotRun
    \* ---- process_stock_data applied to one batch
    data,           \* the decoded batch: a sequence of <<symbol, symbol_data>> items
    psd,            \* its outcome (valid_records, invalid_records) or the raise, or NotRun
    \* ---- the ingest lambda_handler, one invocation per run
    pc,             \* run -> position in lambda_handler
    ev,             \* run -> the S3 event it was invoked with
    etag,           \* run -> ETag read by the first head_object
    recs,           \* run -> (valid_records, invalid_records) of process_stock_data
    processed_key,  \* run -> key returned by write_to_s3 for the valid partition, or None
    result,         \* run -> what lambda_handler returned, or the step it raised at
    log,            \* run -> the calls of external collaborators the run has completed
    prior,          \* run -> fingerprints already processed with success when it started
    window,         \* run -> the runs of its fingerprint that were between their marker check and their
                    \*        return when this run's marker check came back with a 404
    bodies,         \* object store: input key -> body of the uploaded batch
    objects,        \* object store: the partition objects written, by key
    markers,        \* object store: fingerprint -> marker object, for the markers present
    events,         \* event bus: the IngestorCompleted events published
    \* ---- call_bedrock, one execution
    cb_pc,          \* position in call_bedrock
    symbol_data,    \* its input: symbol -> shape of the entry
    retry_count,
    delay,
    attempts,       \* passes through the body of the retry loop
    calls,          \* bedrock.converse calls made
    failures,       \* attempts that ended in the `except Exception` handler
    metric_count,   \* BedrockRetryExceeded data points emitted
    slept,          \* the time.sleep pauses taken, in order
    cb_result,      \* what call_bedrock returned
    last,           \* what the last attempt met
    \* ---- compute_metrics applied to one series
    cm_values,      \* the series handed to compute_metrics, newest first
    metrics,        \* the Metrics it returned, or NotRun
    \* ---- compute_aggregates applied to one symbol map
    agg_symbol_data, \* the symbol map: a sequence of <<symbol, entry>> items
    aggregates,     \* its outcome: the sentences returned, or the raise, or NotRun
    \* ---- the analyze lambda_handler, one invocation
    an_pc,          \* position in lambda_handler
    an_event,       \* the IngestorCompleted event it was invoked with
    an_partition,   \* the records of the processed partition, in file order
    an_symbol_data, \* symbol_data: the <<symbol, entry>> items, in insertion order
    an_aggregates,  \* the outcome of compute_aggregates(symbol_data), or NotRun
    an_output,      \* the outcome of call_bedrock, or NotRun
    an_table,       \* record store: the items put, in order
    an_result,      \* what lambda_handler returned, or the exception it raised
    \* ---- deserialize_dynamodb_item applied to one stream image
    new_image,      \* the NewImage handed to deserialize_dynamodb_item
    deserialized,   \* the dict it returned, or NotRun
    \* ---- the notifier handler, one invocation
    nf_event,       \* the stream event: its Records
    nf_i,           \* number of Records the loop has gone through
    sent,           \* mail service: the messages accepted, in order
    nf_result       \* what handler returned, or the exception it raised

validateVars == <<record, vr>>
processVars  == <<data, psd>>
ingestVars   == <<pc, ev, etag, recs, processed_key, result, log, prior, window,
                  bodies, objects, markers, events>>
bedrockVars  == <<cb_pc, symbol_data, retry_count, delay, attempts, calls, failures,
                  metric_count, slept, cb_result, last>>
metricsVars  == <<cm_values, metrics>>
aggregateVars == <<agg_symbol_data, aggregates>>
analyzeVars  == <<an_pc, an_event, an_partition, an_symbol_data, an_aggregates,
                  an_output, an_table, an_result>>
deserializeVars == <<new_image, deserialized>>
notifierVars == <<nf_event, nf_i, sent, nf_result>>
laterVars    == <<analyzeVars, deserializeVars, notifierVars>>
vars == <<validateVars, processVars, ingestVars, bedrockVars, metricsVars,
          aggregateVars, laterVars>>

NotRun == [status |-> "not_run"]
None   == [t |-> "none", s |-> <<>>, n |-> 0]

(***************************************************************************)
(* Bounds of the model.                                                    *)
(***************************************************************************)
\* fractional digits kept when a decimal string is turned into a number
FracDigits == 2
\* records listed under 'values' of one symbol entry of a batch
MaxValues == 2
\* concurrent or successive invocations of the ingest lambda_handler
MaxRuns == 2
\* points of a series handed to compute_metrics (more than the 5 of its window)
MaxPoints == 6
\* symbols of a symbol map handed to compute_aggregates
MaxSymbols == 3

(***************************************************************************)
(* JSON values of a record's fields.  A field holds a string (a sequence   *)
(* of characters) or a number.                                             *)
(***************************************************************************)
Str(s) == [t |-> "str", s |-> s, n |-> 0]
Num(n) == [t |-> "num", s |-> <<>>, n |-> n]
isinstance_str(v) == v.t = "str"

Digits == {"0", "1", "2", "3", "4", "5", "6", "7", "8", "9"}

DigitVal(c) ==
    CASE c = "0" -> 0 [] c = "1" -> 1 [] c = "2" -> 2 [] c = "3" -> 3
      [] c = "4" -> 4 [] c = "5" -> 5 [] c = "6" -> 6 [] c = "7" -> 7
      [] c = "8" -> 8 [] c = "9" -> 9

IsDigits(s) == Len(s) >= 1 /\ \A i \in 1..Len(s) : s[i] \in Digits

RECURSIVE ToNat(_)
ToNat(s) == IF s = <<>> THEN 0
            ELSE 10 * ToNat(SubSeq(s, 1, Len(s) - 1)) + DigitVal(s[Len(s)])

RECURSIVE Pow10(_)
Pow10(k) == IF k = 0 THEN 1 ELSE 10 * Pow10(k - 1)

\* position of the first occurrence of character c in s, or 0
IndexOf(s, c) ==
    IF \E i \in 1..Len(s) : s[i] = c
    THEN CHOOSE i \in 1..Len(s) : s[i] = c /\ \A j \in 1..(i - 1) : s[j] # c
    ELSE 0

Tail0(s, i) == SubSeq(s, i + 1, Len(s))

(***************************************************************************)
(* float(val): an optional sign, then "nan", or digits with an optional    *)
(* fraction.  The result is [ok, nan, v]: ok is FALSE for ValueError, nan  *)
(* marks the not-a-number float, v is the value in units of                *)
(* 10^-FracDigits.  (Exponents, infinities, underscores and surrounding    *)
(* blanks, which float() also accepts, are outside the strings modelled.)  *)
(***************************************************************************)
FloatError == [ok |-> FALSE, nan |-> FALSE, v |-> 0]

Scaled(ip, fp) ==
    LET k == Len(fp)
    IN  IF k <= FracDigits
        THEN ToNat(ip) * Pow10(FracDigits) + ToNat(fp) * Pow10(FracDigits - k)
        ELSE ToNat(ip) * Pow10(FracDigits) + ToNat(SubSeq(fp, 1, FracDigits))

UnsignedFloat(s) ==
    LET dot == IndexOf(s, ".")
        ip  == IF dot = 0 THEN s ELSE SubSeq(s, 1, dot - 1)
        fp  == IF dot = 0 THEN <<>> ELSE Tail0(s, dot)
    IN  IF s = <<"n", "a", "n">> THEN [ok |-> TRUE, nan |-> TRUE, v |-> 0]
        ELSE IF /\ (ip = <<>> \/ IsDigits(ip))
                /\ (fp = <<>> \/ IsDigits(fp))
                /\ (ip # <<>> \/ fp # <<>>)
             THEN [ok |-> TRUE, nan |-> FALSE, v |-> Scaled(ip, fp)]
             ELSE FloatError

float(s) ==
    IF s # <<>> /\ s[1] = "-"
    THEN LET u == UnsignedFloat(Tail(s))
         IN  IF u.ok THEN [u EXCEPT !.v = 0 - u.v] ELSE u
    ELSE IF s # <<>> /\ s[1] = "+" THEN UnsignedFloat(Tail(s))
    ELSE UnsignedFloat(s)

\* Python's comparisons of floats: every comparison with nan is False
FloatLt(a, b) == ~a.nan /\ ~b.nan /\ a.v < b.v
FloatLe(a, b) == ~a.nan /\ ~b.nan /\ a.v <= b.v

(***************************************************************************)
(* int(vol): an optional sign and decimal digits; anything else is         *)
(* ValueError.                                                             *)
(***************************************************************************)
int(s) ==
    LET body == IF s # <<>> /\ s[1] \in {"-", "+"} THEN Tail(s) ELSE s
    IN  IF IsDigits(body)
        THEN [ok |-> TRUE, v |-> IF s[1] = "-" THEN 0 - ToNat(body) ELSE ToNat(body)]
        ELSE [ok |-> FALSE, v |-> 0]

(***************************************************************************)
(* datetime.strptime(dt, '%Y-%m-%d'): four year digits, one or two month   *)
(* digits (1..12), one or two day digits (a day of that month), separated  *)
(* by '-', and nothing else.  TRUE when it parses, FALSE for ValueError.   *)
(***************************************************************************)
IsLeap(y) == (y % 4 = 0 /\ y % 100 # 0) \/ y % 400 = 0

DaysIn(y, m) ==
    IF m = 2 THEN (IF IsLeap(y) THEN 29 ELSE 28)
    ELSE IF m \in {4, 6, 9, 11} THEN 30 ELSE 31

strptime_ymd(s) ==
    /\ Len(s) >= 8
    /\ IsDigits(SubSeq(s, 1, 4))
    /\ s[5] = "-"
    /\ LET rest == Tail0(s, 5)
           dash == IndexOf(rest, "-")
           ms   == SubSeq(rest, 1, dash - 1)
           ds   == Tail0(rest, dash)
           y    == ToNat(SubSeq(s, 1, 4))
       IN  /\ dash \in {2, 3}
           /\ IsDigits(ms) /\ (Len(ms) = 2 \/ ms # <<"0">>)
           /\ IsDigits(ds) /\ Len(ds) \in {1, 2}
           /\ y >= 1
           /\ ToNat(ms) \in 1..12
           /\ ToNat(ds) >= 1
           /\ ToNat(ds) <= DaysIn(y, ToNat(ms))

(***************************************************************************)
(* validate_record(symbol, record) -> (is_valid, error).                   *)
(* The error message is kept as its fixed text, the field it is about and  *)
(* the value or the field set it interpolates.                             *)
(***************************************************************************)
required_fields == <<"datetime", "open", "high", "low", "close", "volume">>
RequiredSet == {required_fields[i] : i \in 1..Len(required_fields)}
PriceFields == <<"open", "high", "low", "close">>

Ok == [ok |-> TRUE, text |-> "", field |-> "", missing |-> {}, val |-> None]
Err(text, field, val) ==
    [ok |-> FALSE, text |-> text, field |-> field, missing |-> {}, val |-> val]
ErrMissing(rec) ==
    [ok |-> FALSE, text |-> "Missing required fields", field |-> "",
     missing |-> RequiredSet \ DOMAIN rec, val |-> None]

check_datetime(rec) ==
    LET dt == rec["datetime"]
    IN  IF ~isinstance_str(dt) THEN Err("Invalid datetime format", "datetime", dt)
        ELSE IF ~strptime_ymd(dt.s) THEN Err("Invalid datetime format", "datetime", dt)
        ELSE Ok

check_price(rec, price) ==
    LET val == rec[price]
    IN  IF ~isinstance_str(val) THEN Err("is not a string", price, val)
        ELSE IF ~float(val.s).ok THEN Err("is not a valid float", price, val)
        ELSE IF FloatLt(float(val.s), [ok |-> TRUE, nan |-> FALSE, v |-> 0])
             THEN Err("cannot be negative", price, val)
        ELSE Ok

RECURSIVE check_prices(_, _)
check_prices(rec, i) ==
    IF i > Len(PriceFields) THEN Ok
    ELSE LET r == check_price(rec, PriceFields[i])
         IN  IF ~r.ok THEN r ELSE check_prices(rec, i + 1)

check_volume(rec) ==
    LET vol == rec["volume"]
    IN  IF ~isinstance_str(vol) THEN Err("is not a string", "volume", vol)
        ELSE IF ~int(vol.s).ok THEN Err("is not a valid integer", "volume", vol)
        ELSE IF int(vol.s).v < 0 THEN Err("cannot be negative", "volume", vol)
        ELSE Ok

OhlcText == "OHLC values do not satisfy low <= open/high/close <= high"

\* check_ohlc without the containment of close
check_ohlc_open_only(rec) ==
    LET open_p  == float(rec["open"].s)
        high_p  == float(rec["high"].s)
        low_p   == float(rec["low"].s)
    IN  IF ~(FloatLe(low_p, open_p) /\ FloatLe(open_p, high_p))
        THEN Err(OhlcText, "", None)
        ELSE Ok

check_ohlc(rec) ==
    LET open_p  == float(rec["open"].s)
        high_p  == float(rec["high"].s)
        low_p   == float(rec["low"].s)
        close_p == float(rec["close"].s)
    IN  IF ~(/\ FloatLe(low_p, open_p) /\ FloatLe(open_p, high_p)
             /\ FloatLe(low_p, close_p) /\ FloatLe(close_p, high_p))
        THEN Err(OhlcText, "", None)
        ELSE Ok

\* validate_record with the volume check moved before the price checks
validate_record_volume_first(rec) ==
    IF ~(\A i \in 1..Len(required_fields) : required_fields[i] \in DOMAIN rec)
    THEN ErrMissing(rec)
    ELSE IF ~check_datetime(rec).ok THEN check_datetime(rec)
    ELSE IF ~check_volume(rec).ok THEN check_volume(rec)
    ELSE IF ~check_prices(rec, 1).ok THEN check_prices(rec, 1)
    ELSE check_ohlc(rec)

validate_record(rec) ==
    IF ~(\A i \in 1..Len(required_fields) : required_fields[i] \in DOMAIN rec)
    THEN ErrMissing(rec)
    ELSE IF ~check_datetime(rec).ok THEN check_datetime(rec)
    ELSE IF ~check_prices(rec, 1).ok THEN check_prices(rec, 1)
    ELSE IF ~check_volume(rec).ok THEN check_volume(rec)
    ELSE check_ohlc(rec)

(***************************************************************************)
(* process_stock_data(data, correlation_id) -> (valid_records,             *)
(* invalid_records).  The batch is a Python dict, kept as the sequence of  *)
(* its (symbol, symbol_data) items in insertion order; symbol_data and     *)
(* meta are dicts, kept as functions on the keys present.  The logger call *)
(* of the invalid branch reads record['datetime'], which raises KeyError   *)
(* when the record has no such key; nothing catches it.                    *)
(***************************************************************************)
meta_keys == {"symbol", "interval", "currency"}

\* {**value, 'symbol': symbol, 'interval': meta.get('interval', 'unknown')}
Flatten(value, symbol, meta) ==
    [f \in (DOMAIN value) \cup {"symbol", "interval"} |->
        IF f = "symbol" THEN Str(<<symbol>>)
        ELSE IF f = "interval"
             THEN (IF "interval" \in DOMAIN meta THEN meta["interval"]
                   ELSE Str(<<"unknown">>))
        ELSE value[f]]

WithError(rec, error) ==
    [f \in (DOMAIN rec) \cup {"error"} |-> IF f = "error" THEN error ELSE rec[f]]

PsdStart == [status |-> "returned", valid |-> <<>>, invalid |-> <<>>, exc |-> ""]

\* one iteration of `for value in symbol_data['values']`
process_value(acc, value, symbol, meta) ==
    LET rec == Flatten(value, symbol, meta)
        v   == validate_record(rec)
    IN  IF v.ok
        THEN [acc EXCEPT !.valid = Append(@, rec)]
        ELSE [acc EXCEPT !.invalid = Append(@, WithError(rec, v)),
                         !.status = IF "datetime" \in DOMAIN rec THEN @ ELSE "raised",
                         !.exc = IF "datetime" \in DOMAIN rec THEN @ ELSE "KeyError"]

RECURSIVE process_values(_, _, _, _, _)
process_values(acc, values, j, symbol, meta) ==
    IF j > Len(values) \/ acc.status = "raised" THEN acc
    ELSE process_values(process_value(acc, values[j], symbol, meta),
                        values, j + 1, symbol, meta)

\* the two `continue` guards of the loop over data.items()
WellFormedEntry(sd) ==
    /\ "meta" \in DOMAIN sd
    /\ "values" \in DOMAIN sd
    /\ meta_keys \subseteq DOMAIN sd["meta"]

RECURSIVE process_items(_, _, _)
process_items(acc, items, i) ==
    IF i > Len(items) \/ acc.status = "raised" THEN acc
    ELSE LET symbol == items[i][1]
             sd     == items[i][2]
         IN  IF ~WellFormedEntry(sd)
             THEN process_items(acc, items, i + 1)
             ELSE process_items(
                      process_values(acc, sd["values"], 1, symbol, sd["meta"]),
                      items, i + 1)

process_stock_data(items) == process_items(PsdStart, items, 1)

(***************************************************************************)
(* Inputs.                                                                 *)
(***************************************************************************)
S_date      == <<"2", "0", "2", "5", "-", "0", "9", "-", "0", "8">>
S_date2     == <<"2", "0", "2", "5", "-", "0", "9", "-", "0", "1">>
S_dateShort == <<"2", "0", "2", "5", "-", "9", "-", "8">>
S_dateFeb30 == <<"2", "0", "2", "5", "-", "0", "2", "-", "3", "0">>
S_dateSlash == <<"2", "0", "2", "5", "/", "0", "9", "/", "0", "8">>

DatetimeInputs ==
    {Str(S_date), Str(S_dateShort), Str(S_dateFeb30), Str(S_dateSlash), Num(20250908)}
PriceInputs ==
    {Str(<<"1", ".", "5">>), Str(<<"2">>), Str(<<"-", "1">>), Str(<<"x">>),
     Str(<<"n", "a", "n">>), Num(2)}
VolumeInputs ==
    {Str(<<"1", "0", "0">>), Str(<<"-", "1", "0", "0">>), Str(<<"1", ".", "5">>), Num(100)}

\* the records validate_record is tried on: every subset of the required
\* fields, every combination of the values above, flattened as by the caller
Absent == [t |-> "absent", s |-> <<>>, n |-> 0]

RecordInputs ==
    { Flatten([f \in {h \in RequiredSet : g[h] # Absent} |-> g[f]],
              "AAPL", [interval |-> Str(<<"1week">>)]) :
        g \in [datetime : DatetimeInputs \cup {Absent},
               open     : PriceInputs \cup {Absent},
               high     : PriceInputs \cup {Absent},
               low      : PriceInputs \cup {Absent},
               close    : PriceInputs \cup {Absent},
               volume   : VolumeInputs \cup {Absent}] }

\* the raw records a batch lists under 'values'
RawValid ==
    [datetime |-> Str(S_date), open |-> Str(<<"1", ".", "5">>), high |-> Str(<<"2">>),
     low |-> Str(<<"1", ".", "5">>), close |-> Str(<<"2">>),
     volume |-> Str(<<"1", "0", "0">>)]
RawValid2 == [RawValid EXCEPT !.datetime = Str(S_date2)]
RawBadVolume == [RawValid2 EXCEPT !.volume = Str(<<"-", "1", "0", "0">>)]
RawNoDatetime == [f \in RequiredSet \ {"datetime"} |-> RawValid[f]]
RawInputs == {RawValid, RawValid2, RawBadVolume, RawNoDatetime}

SeqsUpTo(S, n) == UNION {[1..k -> S] : k \in 0..n}

GoodMeta == [symbol |-> Str(<<"sym">>), interval |-> Str(<<"1week">>),
             currency |-> Str(<<"USD">>)]
BadMeta  == [symbol |-> Str(<<"sym">>), interval |-> Str(<<"1week">>)]

EntryInputs ==
    LET vs == SeqsUpTo(RawInputs, MaxValues)
    IN  {[meta |-> GoodMeta, values |-> v] : v \in vs}
        \cup {[meta |-> BadMeta, values |-> v] : v \in vs}
        \cup {[values |-> v] : v \in vs}
        \cup {[meta |-> GoodMeta]}

BatchInputs ==
    {<<>>}
    \cup {<< <<"AAPL", e>> >> : e \in EntryInputs}
    \cup {<< <<"AAPL", e1>>, <<"MSFT", e2>> >> : e1 \in EntryInputs, e2 \in EntryInputs}

(***************************************************************************)
(* Idle values of each group of variables, for the specifications that     *)
(* leave the group alone.                                                  *)
(***************************************************************************)
IdleValidate == record = Flatten(RawValid, "AAPL", GoodMeta) /\ vr = NotRun
IdleProcess  == data = <<>> /\ psd = NotRun

(***************************************************************************)
(* validate_record on every record of RecordInputs.                        *)
(***************************************************************************)
ValidateRecord ==
    /\ vr = NotRun
    /\ vr' = [status |-> "returned", ret |-> validate_record(record)]
    /\ UNCHANGED <<record, processVars, ingestVars, bedrockVars, metricsVars, aggregateVars, laterVars>>

(***************************************************************************)
(* process_stock_data on every batch of BatchInputs.                       *)
(***************************************************************************)
ProcessStockData ==
    /\ psd = NotRun
    /\ psd' = process_stock_data(data)
    /\ UNCHANGED <<data, validateVars, ingestVars, bedrockVars, metricsVars, aggregateVars, laterVars>>

(***************************************************************************)
(* The ingest lambda_handler.  Each run is one invocation; a run takes one *)
(* step per call of an external collaborator, so that runs interleave      *)
(* where the code can be interleaved.  Object keys are kept as their       *)
(* parts: 'inputs/a.json' is [folder |-> "inputs", name |-> "a.json"], so  *)
(* key.startswith('inputs/') reads the folder and os.path.basename(key)    *)
(* the name.  An ETag is the identity of the body it was computed from.    *)
(***************************************************************************)
Runs == 1..MaxRuns

PROCESSED_PREFIX == "processed/"
REJECTS_PREFIX   == "rejects/"
HASHES_PREFIX    == "processed/hashes/"

KeyA == [folder |-> "inputs", name |-> "a.json"]
KeyB == [folder |-> "inputs", name |-> "b.json"]
KeyC == [folder |-> "other", name |-> "c.json"]
InputKeys == {KeyA, KeyB}

NotJson == <<"not json">>
Entry(values) == [meta |-> GoodMeta, values |-> values]

\* bodies of uploaded batches: the text decodes to the batch, or does not decode
BodyMixed   == [etag |-> "etag-mixed", decodes |-> TRUE,
                json |-> << <<"AAPL", Entry(<<RawValid, RawBadVolume>>)>> >>]
BodyValid   == [etag |-> "etag-valid", decodes |-> TRUE,
                json |-> << <<"AAPL", Entry(<<RawValid>>)>>, <<"MSFT", Entry(<<RawValid2>>)>> >>]
BodyRejects == [etag |-> "etag-rejects", decodes |-> TRUE,
                json |-> << <<"AAPL", Entry(<<RawBadVolume>>)>> >>]
BodyNoDate  == [etag |-> "etag-nodate", decodes |-> TRUE,
                json |-> << <<"AAPL", Entry(<<RawValid, RawNoDatetime>>)>> >>]
BodyEmpty   == [etag |-> "etag-empty", decodes |-> TRUE, json |-> <<>>]
BodyGarbage == [etag |-> "etag-garbage", decodes |-> FALSE, json |-> <<>>]
BodyInputs  == {BodyMixed, BodyValid, BodyRejects, BodyNoDate, BodyEmpty, BodyGarbage}

\* the S3 events a run is invoked with
EventInputs ==
    {[records |-> 1, key |-> k] : k \in InputKeys \cup {KeyC}}
    \cup {[records |-> 0, key |-> KeyC]}

NoEvent  == [records |-> 0, key |-> KeyC]
NoRecs   == [valid |-> <<>>, invalid |-> <<>>]
NoKey    == [prefix |-> "", filename |-> "", timestamp |-> 0]
Running  == [status |-> "running", message |-> "", valid_count |-> 0,
             invalid_count |-> 0, at |-> ""]

Returned(message, nv, ni) ==
    [status |-> "returned", message |-> message, valid_count |-> nv,
     invalid_count |-> ni, at |-> ""]
Raised(at) ==
    [status |-> "raised", message |-> "", valid_count |-> 0, invalid_count |-> 0,
     at |-> at]

\* fingerprints of the batches some run has processed and returned success for
ProcessedOk ==
    {etag[q] : q \in {x \in Runs : result[x].status = "returned"
                                     /\ result[x].message = "processed"}}

IngestInit ==
    /\ pc = [r \in Runs |-> "idle"]
    /\ ev = [r \in Runs |-> NoEvent]
    /\ etag = [r \in Runs |-> ""]
    /\ recs = [r \in Runs |-> NoRecs]
    /\ processed_key = [r \in Runs |-> NoKey]
    /\ result = [r \in Runs |-> Running]
    /\ log = [r \in Runs |-> <<>>]
    /\ prior = [r \in Runs |-> {}]
    /\ window = [r \in Runs |-> {}]
    /\ bodies \in {b \in [InputKeys -> BodyInputs] : b[KeyB] \in {b[KeyA], BodyValid}}
    /\ objects = {}
    /\ markers = {}
    /\ events = {}

IdleIngest ==
    /\ pc = [r \in Runs |-> "idle"]
    /\ ev = [r \in Runs |-> NoEvent]
    /\ etag = [r \in Runs |-> ""]
    /\ recs = [r \in Runs |-> NoRecs]
    /\ processed_key = [r \in Runs |-> NoKey]
    /\ result = [r \in Runs |-> Running]
    /\ log = [r \in Runs |-> <<>>]
    /\ prior = [r \in Runs |-> {}]
    /\ window = [r \in Runs |-> {}]
    /\ bodies = [k \in InputKeys |-> BodyEmpty]
    /\ objects = {}
    /\ markers = {}
    /\ events = {}

Goto(r, where)  == pc' = [pc EXCEPT ![r] = where]
Logged(r, call) == log' = [log EXCEPT ![r] = Append(@, call)]
Return(r, res)  == /\ pc' = [pc EXCEPT ![r] = "done"]
                   /\ result' = [result EXCEPT ![r] = res]
Raise(r, at)    == Return(r, Raised(at))

\* datetime.datetime.utcnow() as read by run r, to the second: the runs are
\* taken to write in seconds of their own, so the timestamp names the run
utcnow(r) == r

\* invocation, up to the first head_object: the event's record list and the
\* key's folder are checked.  Runs differ only by their number (their
\* correlation_id), so they are invoked in the order of their numbers.
Invoke(r, e) ==
    /\ pc[r] = "idle"
    /\ \A q \in Runs : q < r => pc[q] # "idle"
    /\ ev' = [ev EXCEPT ![r] = e]
    /\ prior' = [prior EXCEPT ![r] = ProcessedOk]
    /\ IF e.records = 0 THEN Raise(r, "event")
       ELSE IF e.key.folder # "inputs" THEN Return(r, Returned("ignored", 0, 0))
       ELSE Goto(r, "head_object") /\ UNCHANGED result
    /\ UNCHANGED <<etag, recs, processed_key, log, bodies, objects, markers, events>>
    /\ UNCHANGED <<window, validateVars, processVars, bedrockVars, metricsVars, aggregateVars, laterVars>>

\* response = s3_client.head_object(Bucket, Key); etag = response['ETag']
HeadObject(r) ==
    /\ pc[r] = "head_object"
    /\ \E answered \in BOOLEAN :
          IF answered
          THEN /\ etag' = [etag EXCEPT ![r] = bodies[ev[r].key].etag]
               /\ Goto(r, "head_marker")
               /\ Logged(r, "head_object")
               /\ UNCHANGED result
          ELSE /\ Raise(r, "head_object")
               /\ UNCHANGED <<etag, log>>
    /\ UNCHANGED <<ev, recs, processed_key, prior, bodies, objects, markers, events>>
    /\ UNCHANGED <<window, validateVars, processVars, bedrockVars, metricsVars, aggregateVars, laterVars>>

\* the marker check: head_object on processed/hashes/<etag>; a 404 lets the
\* run go on, any other error is raised
MarkerExists(e) == \E m \in markers : m.key = <<HASHES_PREFIX, e>>

\* the runs of fingerprint e whose marker check came back with a 404 and
\* that have not returned or raised yet
InWindow(e) ==
    {q \in Runs : /\ etag[q] = e
                  /\ pc[q] \in {"get_object", "write_valid", "write_rejects",
                                "publish_metric", "write_marker", "put_events"}}

\* HeadMarker without the early return on a marker that exists
HeadMarker_no_dedup(r) ==
    /\ pc[r] = "head_marker"
    /\ \E answered \in BOOLEAN :
          IF ~answered
          THEN Raise(r, "head_marker") /\ UNCHANGED <<log, window>>
          ELSE /\ Goto(r, "get_object")
               /\ Logged(r, "head_marker:404")
               /\ window' = [window EXCEPT ![r] = InWindow(etag[r]) \ {r}]
               /\ UNCHANGED result
    /\ UNCHANGED <<ev, etag, recs, processed_key, prior, bodies, objects, markers,
                   events>>
    /\ UNCHANGED <<validateVars, processVars, bedrockVars, metricsVars, aggregateVars, laterVars>>

HeadMarker(r) ==
    /\ pc[r] = "head_marker"
    /\ \E answered \in BOOLEAN :
          IF ~answered
          THEN Raise(r, "head_marker") /\ UNCHANGED <<log, window>>
          ELSE IF MarkerExists(etag[r])
          THEN /\ Return(r, Returned("already processed", 0, 0))
               /\ Logged(r, "head_marker:found")
               /\ UNCHANGED window
          ELSE /\ Goto(r, "get_object")
               /\ Logged(r, "head_marker:404")
               /\ window' = [window EXCEPT ![r] = InWindow(etag[r]) \ {r}]
               /\ UNCHANGED result
    /\ UNCHANGED <<ev, etag, recs, processed_key, prior, bodies, objects, markers,
                   events>>
    /\ UNCHANGED <<validateVars, processVars, bedrockVars, metricsVars, aggregateVars, laterVars>>

\* get_object, json.loads and process_stock_data
GetObject(r) ==
    /\ pc[r] = "get_object"
    /\ \E answered \in BOOLEAN :
          LET body == bodies[ev[r].key]
              out  == process_stock_data(body.json)
          IN  IF ~answered
              THEN Raise(r, "get_object") /\ UNCHANGED <<recs, log>>
              ELSE IF ~body.decodes
              THEN Raise(r, "json.loads") /\ Logged(r, "get_object") /\ UNCHANGED recs
              ELSE IF out.status = "raised"
              THEN Raise(r, "process_stock_data") /\ Logged(r, "get_object")
                   /\ UNCHANGED recs
              ELSE /\ recs' = [recs EXCEPT ![r] = [valid |-> out.valid,
                                                   invalid |-> out.invalid]]
                   /\ Goto(r, "write_valid")
                   /\ Logged(r, "get_object")
                   /\ UNCHANGED result
    /\ UNCHANGED <<ev, etag, processed_key, prior, bodies, objects, markers, events>>
    /\ UNCHANGED <<window, validateVars, processVars, bedrockVars, metricsVars, aggregateVars, laterVars>>

(***************************************************************************)
(* write_to_s3(records, bucket, prefix, filename): nothing is written for  *)
(* an empty list (None is returned); otherwise one object is put under     *)
(* <prefix><filename>_<timestamp>.jsonl, replacing an object of that key,  *)
(* and the key is returned; a failed put is raised.                        *)
(***************************************************************************)
PartitionKey(prefix, filename, t) ==
    [prefix |-> prefix, filename |-> filename, timestamp |-> t]

Put(store, key, obj) == {o \in store : o.key # key} \cup {obj}

\* write_to_s3 with a failed put logged and swallowed instead of raised
write_to_s3_swallow(r, records, prefix, call, next) ==
    IF records = <<>>
    THEN /\ Goto(r, next)
         /\ Logged(r, "skip_" \o call)
         /\ UNCHANGED <<objects, result, processed_key>>
    ELSE \E answered \in BOOLEAN :
            /\ IF answered
               THEN LET key == PartitionKey(prefix, ev[r].key.name, utcnow(r))
                    IN  /\ objects' = Put(objects, key,
                                          [key |-> key, lines |-> records, by |-> r])
                        /\ processed_key' = IF prefix = PROCESSED_PREFIX
                                            THEN [processed_key EXCEPT ![r] = key]
                                            ELSE processed_key
                        /\ Logged(r, "put_" \o call)
               ELSE UNCHANGED <<objects, processed_key, log>>
            /\ Goto(r, next)
            /\ UNCHANGED result

write_to_s3(r, records, prefix, call, next) ==
    IF records = <<>>
    THEN /\ Goto(r, next)
         /\ Logged(r, "skip_" \o call)
         /\ UNCHANGED <<objects, result>>
         /\ processed_key' = IF prefix = PROCESSED_PREFIX
                             THEN [processed_key EXCEPT ![r] = NoKey]
                             ELSE processed_key
    ELSE \E answered \in BOOLEAN :
            /\ IF answered
               THEN LET key == PartitionKey(prefix, ev[r].key.name, utcnow(r))
                    IN  /\ objects' = Put(objects, key,
                                          [key |-> key, lines |-> records, by |-> r])
                        /\ processed_key' = IF prefix = PROCESSED_PREFIX
                                            THEN [processed_key EXCEPT ![r] = key]
                                            ELSE processed_key
                        /\ Goto(r, next)
                        /\ Logged(r, "put_" \o call)
                        /\ UNCHANGED result
               ELSE /\ Raise(r, "write_" \o call)
                    /\ UNCHANGED <<objects, processed_key, log>>

WriteValid(r) ==
    /\ pc[r] = "write_valid"
    /\ write_to_s3(r, recs[r].valid, PROCESSED_PREFIX, "valid", "write_rejects")
    /\ UNCHANGED <<ev, etag, recs, prior, bodies, markers, events>>
    /\ UNCHANGED <<window, validateVars, processVars, bedrockVars, metricsVars, aggregateVars, laterVars>>

WriteRejects(r) ==
    /\ pc[r] = "write_rejects"
    /\ write_to_s3(r, recs[r].invalid, REJECTS_PREFIX, "rejects", "publish_metric")
    /\ UNCHANGED <<ev, etag, recs, prior, bodies, markers, events>>
    /\ UNCHANGED <<window, validateVars, processVars, bedrockVars, metricsVars, aggregateVars, laterVars>>

\* publish_reject_metric letting a failed put_metric_data out to the handler
PublishRejectMetric_raising(r) ==
    /\ pc[r] = "publish_metric"
    /\ IF Len(recs[r].valid) + Len(recs[r].invalid) = 0
       THEN Logged(r, "skip_metric") /\ Goto(r, "write_marker") /\ UNCHANGED result
       ELSE \E answered \in BOOLEAN :
               IF answered
               THEN Logged(r, "put_metric") /\ Goto(r, "write_marker")
                    /\ UNCHANGED result
               ELSE Logged(r, "metric_failed") /\ Raise(r, "publish_metric")
    /\ UNCHANGED <<ev, etag, recs, processed_key, prior, bodies, objects,
                   markers, events>>
    /\ UNCHANGED <<window, validateVars, processVars, bedrockVars, metricsVars, aggregateVars, laterVars>>

\* publish_reject_metric: nothing for an empty batch; a failed
\* put_metric_data is logged and swallowed
PublishRejectMetric(r) ==
    /\ pc[r] = "publish_metric"
    /\ IF Len(recs[r].valid) + Len(recs[r].invalid) = 0
       THEN Logged(r, "skip_metric")
       ELSE \E answered \in BOOLEAN :
               Logged(r, IF answered THEN "put_metric" ELSE "metric_failed")
    /\ Goto(r, "write_marker")
    /\ UNCHANGED <<ev, etag, recs, processed_key, result, prior, bodies, objects,
                   markers, events>>
    /\ UNCHANGED <<window, validateVars, processVars, bedrockVars, metricsVars, aggregateVars, laterVars>>

\* the marker object is put under processed/hashes/<etag>; a failed put is
\* raised.  With no valid partition written (processed_key is None) the
\* handler returns right after it.
WriteMarker(r) ==
    /\ pc[r] = "write_marker"
    /\ \E answered \in BOOLEAN :
          /\ IF answered
             THEN /\ markers' = Put(markers, <<HASHES_PREFIX, etag[r]>>,
                                    [key |-> <<HASHES_PREFIX, etag[r]>>,
                                     s3_key |-> ev[r].key, processed_at |-> utcnow(r),
                                     correlation_id |-> r])
                  /\ Logged(r, "put_marker")
                  /\ IF processed_key[r] = NoKey
                     THEN Return(r, Returned("processed", Len(recs[r].valid),
                                             Len(recs[r].invalid)))
                     ELSE Goto(r, "put_events") /\ UNCHANGED result
             ELSE /\ Raise(r, "write_marker")
                  /\ UNCHANGED <<markers, log>>
    /\ UNCHANGED <<ev, etag, recs, processed_key, prior, bodies, objects, events>>
    /\ UNCHANGED <<window, validateVars, processVars, bedrockVars, metricsVars, aggregateVars, laterVars>>

\* PutEvents returning without the put_events call
PutEvents_silent(r) ==
    /\ pc[r] = "put_events"
    /\ Return(r, Returned("processed", Len(recs[r].valid), Len(recs[r].invalid)))
    /\ UNCHANGED <<ev, etag, recs, processed_key, prior, bodies, objects, markers,
                   events, log>>
    /\ UNCHANGED <<window, validateVars, processVars, bedrockVars, metricsVars, aggregateVars, laterVars>>

\* events_client.put_events of the IngestorCompleted event, then the return
PutEvents(r) ==
    /\ pc[r] = "put_events"
    /\ \E answered \in BOOLEAN :
          IF answered
          THEN /\ events' = events \cup
                     {[detail_type |-> "IngestorCompleted",
                       key |-> processed_key[r],
                       valid_count |-> Len(recs[r].valid),
                       invalid_count |-> Len(recs[r].invalid),
                       raw_count |-> Len(recs[r].valid) + Len(recs[r].invalid),
                       filename |-> ev[r].key.name,
                       processed_marker |-> <<HASHES_PREFIX, etag[r]>>,
                       by |-> r]}
               /\ Logged(r, "put_events")
               /\ Return(r, Returned("processed", Len(recs[r].valid),
                                     Len(recs[r].invalid)))
          ELSE /\ Raise(r, "put_events")
               /\ UNCHANGED <<events, log>>
    /\ UNCHANGED <<ev, etag, recs, processed_key, prior, bodies, objects, markers>>
    /\ UNCHANGED <<window, validateVars, processVars, bedrockVars, metricsVars, aggregateVars, laterVars>>

(***************************************************************************)
(* call_bedrock(symbol_data, aggregates, correlation_id, context).         *)
(* One step is one pass through the body of `while retry_count <           *)
(* max_retries`: the prompt is built, bedrock.converse is called, the text *)
(* is stripped of its code fence and decoded, and the pass ends in the     *)
(* return, in the re-raise of the `except json.JSONDecodeError` clause     *)
(* (which the `except Exception` clause of the same try statement does not *)
(* catch), or in the `except Exception` clause.  When the loop condition   *)
(* fails the function falls off its end and returns None.                  *)
(***************************************************************************)
max_retries   == 5
initial_delay == 1

InputSymbols == {"AAPL", "MSFT"}
AllSymbols   == InputSymbols \cup {"ZZZZ"}
EntryShapes  == {"metrics", "no_metrics", "no_values"}

\* the entries of symbol_data the prompt is built from: an entry without
\* 'metrics' is skipped, data["values"] of an entry without 'values' raises
PromptRaises(sd) == \E sym \in DOMAIN sd : sd[sym] = "no_values"

\* JSON values a response text may encode
Payloads ==
    {[kind |-> "object", symbols |-> S] : S \in SUBSET AllSymbols}
    \cup {[kind |-> "array", symbols |-> {}]}
NoPayload == [kind |-> "none", symbols |-> {}]
PyNone    == [kind |-> "None", symbols |-> {}]

\* what bedrock.converse does: it raises, or it answers a text made of an
\* optional opening fence, a body that is the JSON text of a payload or is
\* no JSON text, and an optional closing fence
Responses ==
    {[raises |-> TRUE, open |-> FALSE, close |-> FALSE, json |-> FALSE,
      payload |-> NoPayload]}
    \cup {[raises |-> FALSE, open |-> o, close |-> c, json |-> FALSE,
           payload |-> NoPayload] : o \in BOOLEAN, c \in BOOLEAN}
    \cup {[raises |-> FALSE, open |-> o, close |-> c, json |-> TRUE,
           payload |-> p] : o \in BOOLEAN, c \in BOOLEAN, p \in Payloads}

\* output_text[7:-3] when the text starts with the fence, then json.loads:
\* the slice drops the closing fence, or the last three characters of the
\* body when there is none; a closing fence left after the body is extra data
json_loads(resp) ==
    IF resp.json /\ resp.open = resp.close
    THEN [ok |-> TRUE, value |-> resp.payload]
    ELSE [ok |-> FALSE, value |-> NoPayload]

BedrockInit ==
    /\ cb_pc = "loop"
    /\ symbol_data \in UNION {[D -> EntryShapes] : D \in SUBSET InputSymbols}
    /\ retry_count = 0
    /\ delay = initial_delay
    /\ attempts = 0
    /\ calls = 0
    /\ failures = 0
    /\ metric_count = 0
    /\ slept = <<>>
    /\ cb_result = NoPayload
    /\ last = "none"

IdleBedrock ==
    /\ cb_pc = "idle"
    /\ symbol_data = <<>>
    /\ retry_count = 0
    /\ delay = initial_delay
    /\ attempts = 0
    /\ calls = 0
    /\ failures = 0
    /\ metric_count = 0
    /\ slept = <<>>
    /\ cb_result = NoPayload
    /\ last = "none"

\* the `except Exception` clause with the delay tripled after each pause
ExceptException_tripling ==
    /\ retry_count' = retry_count + 1
    /\ failures' = failures + 1
    /\ IF retry_count + 1 > max_retries
       THEN /\ metric_count' = metric_count + 1
            /\ cb_pc' = "raised"
            /\ UNCHANGED <<slept, delay, cb_result>>
       ELSE /\ slept' = Append(slept, delay)
            /\ delay' = delay * 3
            /\ metric_count' = metric_count
            /\ IF retry_count + 1 < max_retries
               THEN cb_pc' = "loop" /\ UNCHANGED cb_result
               ELSE cb_pc' = "returned" /\ cb_result' = PyNone

\* the `except Exception` clause, and the loop condition after it
ExceptException ==
    /\ retry_count' = retry_count + 1
    /\ failures' = failures + 1
    /\ IF retry_count + 1 > max_retries
       THEN /\ metric_count' = metric_count + 1
            /\ cb_pc' = "raised"
            /\ UNCHANGED <<slept, delay, cb_result>>
       ELSE /\ slept' = Append(slept, delay)
            /\ delay' = delay * 2
            /\ metric_count' = metric_count
            /\ IF retry_count + 1 < max_retries
               THEN cb_pc' = "loop" /\ UNCHANGED cb_result
               ELSE cb_pc' = "returned" /\ cb_result' = PyNone

Attempt(resp) ==
    /\ cb_pc = "loop"
    /\ retry_count < max_retries
    /\ attempts' = attempts + 1
    /\ IF PromptRaises(symbol_data)
       THEN /\ ExceptException
            /\ last' = "prompt raised"
            /\ UNCHANGED calls
       ELSE /\ calls' = calls + 1
            /\ IF resp.raises
               THEN ExceptException /\ last' = "converse raised"
               ELSE IF ~json_loads(resp).ok
               THEN /\ cb_pc' = "raised"
                    /\ last' = "undecodable"
                    /\ UNCHANGED <<retry_count, failures, metric_count, slept, delay,
                                   cb_result>>
               ELSE /\ cb_pc' = "returned"
                    /\ cb_result' = json_loads(resp).value
                    /\ last' = "decoded"
                    /\ UNCHANGED <<retry_count, failures, metric_count, slept, delay>>
    /\ UNCHANGED symbol_data
    /\ UNCHANGED <<validateVars, processVars, ingestVars, metricsVars, aggregateVars, laterVars>>

(***************************************************************************)
(* compute_metrics(values) -> Metrics.                                     *)
(* Prices carry at most two decimals and are held in hundredths; the       *)
(* arithmetic is exact.  round(x, 2) of a quotient is the nearest          *)
(* hundredth.  statistics.stdev is the sample standard deviation           *)
(* sqrt(N / (n (n - 1))) with N = n * sum(c^2) - sum(c)^2, which does not  *)
(* change when the same amount is taken off every c.                       *)
(***************************************************************************)
Hundredths(f) == (f.v * 100) \div Pow10(FracDigits)

\* v.get(field, default): the value of the field, or the default
get(v, field, default) == IF field \in DOMAIN v THEN v[field] ELSE default

\* float(v.get("close", 0)) in hundredths, ok FALSE for ValueError
close_of(v) ==
    LET x == get(v, "close", Num(0))
    IN  IF isinstance_str(x)
        THEN LET f == float(x.s) IN [ok |-> f.ok /\ ~f.nan, v |-> Hundredths(f)]
        ELSE [ok |-> TRUE, v |-> x.n * 100]

\* int(v.get("volume", 0)), ok FALSE for ValueError
volume_of(v) ==
    LET x == get(v, "volume", Num(0))
    IN  IF isinstance_str(x) THEN int(x.s) ELSE [ok |-> TRUE, v |-> x.n]

\* dates[0] or 'unknown date'
date_of(v) ==
    LET x == get(v, "datetime", Str(<<>>))
    IN  IF x = Str(<<>>) THEN Str(<<"unknown date">>) ELSE x

RECURSIVE Sum(_)
Sum(sq) == IF sq = <<>> THEN 0 ELSE sq[1] + Sum(Tail(sq))

Abs(x) == IF x < 0 THEN 0 - x ELSE x

Min(sq) == CHOOSE x \in {sq[i] : i \in 1..Len(sq)} :
               \A i \in 1..Len(sq) : x <= sq[i]

\* n / d (d > 0) to the nearest integer
RoundDiv(n, d) ==
    IF n >= 0 THEN (2 * n + d) \div (2 * d)
    ELSE 0 - ((2 * (0 - n) + d) \div (2 * d))

\* sqrt(n / d) to the nearest integer (n >= 0, d > 0)
RoundSqrt(n, d) ==
    CHOOSE k \in 0..(n + 1) :
        /\ (k = 0 \/ (2 * k - 1) * (2 * k - 1) * d <= 4 * n)
        /\ 4 * n < (2 * k + 1) * (2 * k + 1) * d

First5(sq) == SubSeq(sq, 1, 5)

\* n * sum(c^2) - sum(c)^2 of the first five closes (n = 5)
SumSq5(closes) ==
    LET m == Min(First5(closes))
        d == [i \in 1..5 |-> closes[i] - m]
    IN  5 * Sum([i \in 1..5 |-> d[i] * d[i]]) - Sum(d) * Sum(d)

\* statistics.mean of a sequence of integers, as the fraction num / den
Mean(sq) == [num |-> Sum(sq), den |-> Len(sq)]
Whole(n) == [num |-> n, den |-> 1]

VolumeAnomaly(date) == [text |-> "Unusual trading volume on", date |-> date]
PriceAnomaly(date)  == [text |-> "Sharp price movement on", date |-> date]
RecordHigh(date)    == [text |-> "Record high close on", date |-> date]

\* the Metrics of an empty series with trend 'unknown'
NeutralMetrics_unknown ==
    [latest_close |-> None, trend |-> "unknown", momentum |-> None,
     volatility |-> 0, anomalies |-> <<>>, avg_volume |-> Whole(0),
     percent_change |-> 0]

\* the Metrics of an empty series
NeutralMetrics ==
    [latest_close |-> None, trend |-> "flat", momentum |-> None,
     volatility |-> 0, anomalies |-> <<>>, avg_volume |-> Whole(0),
     percent_change |-> 0]

\* the Metrics returned by the `except Exception` handler
DegradedMetrics ==
    [latest_close |-> None, trend |-> "unknown", momentum |-> None,
     volatility |-> 0,
     anomalies |-> << [text |-> "Computation failed:", date |-> Str(<<>>)] >>,
     avg_volume |-> Whole(0), percent_change |-> 0]

\* latest_close and prev_close of parsed closes
Latest(closes) == closes[1]
Prev(closes)   == IF Len(closes) > 1 THEN closes[2] ELSE closes[1]

\* the trend read the other way round
trend_of_reversed(latest_close, prev_close) ==
    IF latest_close # 0 /\ prev_close # 0 /\ latest_close > prev_close THEN "down"
    ELSE IF latest_close # 0 /\ prev_close # 0 /\ latest_close < prev_close
    THEN "up"
    ELSE "flat"

trend_of(latest_close, prev_close) ==
    IF latest_close # 0 /\ prev_close # 0 /\ latest_close > prev_close THEN "up"
    ELSE IF latest_close # 0 /\ prev_close # 0 /\ latest_close < prev_close
    THEN "down"
    ELSE "flat"

\* the volume check against the mean of the first 5 volumes only
volume_check_first5(volumes) ==
    LET w == SubSeq(volumes, 1, IF Len(volumes) < 5 THEN Len(volumes) ELSE 5)
    IN  2 * volumes[1] * Len(w) > 3 * Sum(w)

\* latest_vol > 1.5 * avg_vol
volume_check(volumes) ==
    2 * volumes[1] * Len(volumes) > 3 * Sum(volumes)

\* latest_close and prev_close and abs(latest_close - prev_close) > 0.05 * prev_close
price_check(latest_close, prev_close) ==
    /\ latest_close # 0 /\ prev_close # 0
    /\ 20 * Abs(latest_close - prev_close) > prev_close

\* the record-high check against avg_close + 1 * stdev_close
record_high_check_one_stdev(closes) ==
    /\ Len(closes) >= 5
    /\ SumSq5(closes) > 0
    /\ LET over == 5 * closes[1] - Sum(First5(closes))
       IN  over > 0 /\ 4 * over * over > 5 * SumSq5(closes)

\* len(closes) >= 5, stdev_close > 0 and latest_close > avg_close + 2 * stdev_close
record_high_check(closes) ==
    /\ Len(closes) >= 5
    /\ SumSq5(closes) > 0
    /\ LET over == 5 * closes[1] - Sum(First5(closes))
       IN  over > 0 /\ over * over > 5 * SumSq5(closes)

anomalies_of(v0, closes, volumes) ==
    (IF volume_check(volumes) THEN <<VolumeAnomaly(date_of(v0))>> ELSE <<>>)
    \o (IF price_check(Latest(closes), Prev(closes))
        THEN <<PriceAnomaly(date_of(v0))>> ELSE <<>>)
    \o (IF record_high_check(closes) THEN <<RecordHigh(date_of(v0))>> ELSE <<>>)

compute_metrics(vals) ==
    IF vals = <<>> THEN NeutralMetrics
    ELSE IF \E i \in 1..Len(vals) : ~close_of(vals[i]).ok \/ ~volume_of(vals[i]).ok
    THEN DegradedMetrics
    ELSE LET closes  == [i \in 1..Len(vals) |-> close_of(vals[i]).v]
             volumes == [i \in 1..Len(vals) |-> volume_of(vals[i]).v]
             latest_close == Latest(closes)
             prev_close   == Prev(closes)
         IN  [latest_close |-> Num(latest_close),
              trend |-> trend_of(latest_close, prev_close),
              momentum |-> IF Len(closes) >= 5 THEN Num(latest_close - closes[5])
                           ELSE None,
              volatility |-> IF Len(closes) >= 5 /\ SumSq5(closes) > 0
                             THEN RoundSqrt(SumSq5(closes), 20) ELSE 0,
              anomalies |-> anomalies_of(vals[1], closes, volumes),
              avg_volume |-> Mean(volumes),
              percent_change |-> IF prev_close # 0
                                 THEN RoundDiv((latest_close - prev_close) * 10000,
                                               prev_close)
                                 ELSE 0]

\* ---- the series compute_metrics is tried on
Point(close, volume) ==
    [datetime |-> Str(S_date), close |-> Str(close), volume |-> Str(volume)]

S_0   == <<"0">>
S_2   == <<"2">>
S_205 == <<"2", ".", "0", "5">>
S_3   == <<"3">>
S_100 == <<"1", "0", "0">>
S_400 == <<"4", "0", "0">>

CloseInputs == {S_0, S_2, S_205, S_3}
VolInputs   == {S_100, S_400}

\* points lacking a field, or holding a field that does not parse
OddPoints ==
    {[datetime |-> Str(S_date), volume |-> Str(S_100)],
     [datetime |-> Str(S_date), close |-> Str(S_2)],
     [close |-> Str(S_3), volume |-> Str(S_400)],
     [datetime |-> Str(S_date), close |-> Str(<<"x">>), volume |-> Str(S_100)],
     [datetime |-> Str(S_date), close |-> Str(S_2), volume |-> Str(<<"1", ".", "5">>)]}

\* the series of test_compute_metrics_uptrend
UptrendFixture ==
    << [datetime |-> Str(S_date),
        close |-> Str(<<"2", "4", "0", ".", "0", "0">>),
        volume |-> Str(<<"1", "0", "1", "8", "0", "4", "2", "0", "0">>)],
       [datetime |-> Str(S_date2),
        close |-> Str(<<"2", "4", "2", ".", "0", "0">>),
        volume |-> Str(<<"1", "0", "5", "0", "0", "0", "0", "0", "0">>)],
       [datetime |-> Str(S_date2),
        close |-> Str(<<"2", "4", "0", ".", "0", "0">>),
        volume |-> Str(<<"1", "1", "0", "0", "0", "0", "0", "0", "0">>)],
       [datetime |-> Str(S_date2),
        close |-> Str(<<"2", "3", "8", ".", "0", "0">>),
        volume |-> Str(<<"1", "2", "0", "0", "0", "0", "0", "0", "0">>)],
       [datetime |-> Str(S_date2),
        close |-> Str(<<"2", "3", "5", ".", "1", "7">>),
        volume |-> Str(<<"1", "5", "9", "4", "7", "4", "1", "0", "0">>)] >>

\* the series of test_compute_metrics_anomaly_volume
VolumeFixture ==
    << [datetime |-> Str(S_date),
        close |-> Str(<<"2", "4", "1", ".", "3", "8">>),
        volume |-> Str(<<"2", "0", "0", "0", "0", "0", "0", "0", "0">>)],
       [datetime |-> Str(S_date2),
        close |-> Str(<<"2", "4", "0", ".", "0", "0">>),
        volume |-> Str(<<"5", "0", "0", "0", "0", "0", "0", "0">>)],
       [datetime |-> Str(S_date2),
        close |-> Str(<<"2", "3", "9", ".", "0", "0">>),
        volume |-> Str(<<"4", "0", "0", "0", "0", "0", "0", "0">>)],
       [datetime |-> Str(S_date2),
        close |-> Str(<<"2", "3", "8", ".", "0", "0">>),
        volume |-> Str(<<"4", "5", "0", "0", "0", "0", "0", "0">>)],
       [datetime |-> Str(S_date2),
        close |-> Str(<<"2", "3", "7", ".", "0", "0">>),
        volume |-> Str(<<"4", "7", "0", "0", "0", "0", "0", "0">>)] >>

\* series of every length up to MaxPoints whose closes vary, series whose
\* volumes vary, short series of any points, and the fixtures of the tests
SeriesInputs ==
    SeqsUpTo({Point(c, S_100) : c \in CloseInputs}, MaxPoints)
    \cup SeqsUpTo({Point(S_2, v) : v \in VolInputs}, MaxPoints)
    \cup SeqsUpTo({Point(c, v) : c \in CloseInputs, v \in VolInputs} \cup OddPoints, 2)
    \cup {UptrendFixture, VolumeFixture}

IdleMetrics == cm_values = <<>> /\ metrics = NotRun

ComputeMetrics ==
    /\ metrics = NotRun
    /\ metrics' = [status |-> "returned", ret |-> compute_metrics(cm_values)]
    /\ UNCHANGED <<cm_values, validateVars, processVars, ingestVars, bedrockVars,
                   aggregateVars, laterVars>>

(***************************************************************************)
(* compute_aggregates(symbol_data) -> list of sentences.                   *)
(* symbol_data is kept as the sequence of its <<symbol, entry>> items in   *)
(* insertion order.  A sentence is kept as its category and the values it  *)
(* interpolates.  The outcome is the list returned, or the exception       *)
(* raised together with the sentences appended before it.                  *)
(***************************************************************************)
HasMetrics(item) == "metrics" \in DOMAIN item[2]
WithMetrics(sd) == SelectSeq(sd, HasMetrics)

HasMomentum(item) == item[2].metrics.momentum # None

Max(sq) == CHOOSE x \in {sq[i] : i \in 1..Len(sq)} :
               \A i \in 1..Len(sq) : x >= sq[i]

\* index of the first element of sq equal to x, or 0 (list.index raises then)
index(sq, x) ==
    IF \E i \in 1..Len(sq) : sq[i] = x
    THEN CHOOSE i \in 1..Len(sq) : sq[i] = x /\ \A j \in 1..(i - 1) : sq[j] # x
    ELSE 0

HasVolume(v) == "volume" \in DOMAIN v

RECURSIVE Concat(_)
Concat(sqs) == IF sqs = <<>> THEN <<>> ELSE sqs[1] \o Concat(Tail(sqs))

\* the points with a volume of the entries with metrics, in order
VolumePoints(sd) ==
    Concat([i \in 1..Len(WithMetrics(sd)) |->
               SelectSeq(WithMetrics(sd)[i][2].values, HasVolume)])

AggReturned(sentences) == [status |-> "returned", exc |-> "", aggregates |-> sentences]
AggRaised(exc, sentences) == [status |-> "raised", exc |-> exc, aggregates |-> sentences]

volume_sentence(sd) ==
    LET pts == VolumePoints(sd)
        volumes == [i \in 1..Len(pts) |-> volume_of(pts[i]).v]
    IN  [category |-> "volume", stocks |-> Len(sd),
         avg_volume |-> IF volumes # <<>> THEN Mean(volumes) ELSE Whole(0)]

\* the momentum sentence, or nothing when no symbol has a momentum
momentum_sentence(sd) ==
    LET M == SelectSeq(WithMetrics(sd), HasMomentum)
        momentums == [i \in 1..Len(M) |-> M[i][2].metrics.momentum.n]
    IN  IF momentums # <<>>
        THEN << [category |-> "momentum",
                 symbol |-> M[index(momentums, Max(momentums))][1],
                 value |-> Max(momentums)] >>
        ELSE <<>>

percent_changes(sd) ==
    [i \in 1..Len(WithMetrics(sd)) |-> WithMetrics(sd)[i][2].metrics.percent_change]
AbsAll(sq) == [i \in 1..Len(sq) |-> Abs(sq[i])]

\* percent_changes.index(max_change) finds the largest magnitude among the
\* signed values, or raises ValueError
change_raises(sd) ==
    /\ percent_changes(sd) # <<>>
    /\ index(percent_changes(sd), Max(AbsAll(percent_changes(sd)))) = 0

change_sentence(sd) ==
    LET pcs == percent_changes(sd)
        max_change == Max(AbsAll(pcs))
    IN  IF pcs # <<>>
        THEN << [category |-> "percent_change",
                 symbol |-> WithMetrics(sd)[index(AbsAll(pcs), max_change)][1],
                 direction |-> IF pcs[index(pcs, max_change)] > 0
                               THEN "gainer" ELSE "loser",
                 value |-> max_change] >>
        ELSE <<>>

anomaly_count_sentence(sd) ==
    LET M == WithMetrics(sd)
        symbols_with_anomalies ==
            Cardinality({i \in 1..Len(M) : M[i][2].metrics.anomalies # <<>>})
    IN  [category |-> "anomaly_count", count |-> symbols_with_anomalies,
         stocks |-> Len(sd),
         turbulence |-> IF 2 * symbols_with_anomalies > Len(sd)
                        THEN "high" ELSE "moderate"]

trend_sentence(sd) ==
    LET M == WithMetrics(sd)
        count(t) == Cardinality({i \in 1..Len(M) : M[i][2].metrics.trend = t})
        majority_trend ==
            IF count("up") >= count("down") /\ count("up") >= count("flat") THEN "up"
            ELSE IF count("down") >= count("flat") THEN "down"
            ELSE "flat"
    IN  [category |-> "trend", count |-> count(majority_trend), stocks |-> Len(M),
         trend |-> majority_trend,
         sentiment |-> CASE majority_trend = "up" -> "bullish"
                         [] majority_trend = "down" -> "bearish"
                         [] OTHER -> "stable"]

volatility_sentence(sd) ==
    LET M == WithMetrics(sd)
        volatilities == [i \in 1..Len(M) |-> M[i][2].metrics.volatility]
    IN  IF volatilities # <<>>
        THEN << [category |-> "volatility",
                 symbol |-> M[index(volatilities, Max(volatilities))][1],
                 value |-> Max(volatilities)] >>
        ELSE <<>>

total_sentence(sd) ==
    LET M == WithMetrics(sd)
        total == Sum([i \in 1..Len(M) |-> Len(M[i][2].metrics.anomalies)])
    IN  [category |-> "total_anomalies", count |-> total,
         activity |-> IF total > Len(sd) THEN "significant" ELSE "moderate"]

compute_aggregates(sd) ==
    IF \E i \in 1..Len(VolumePoints(sd)) : ~volume_of(VolumePoints(sd)[i]).ok
    THEN AggRaised("ValueError", <<>>)
    ELSE IF change_raises(sd)
    THEN AggRaised("ValueError", <<volume_sentence(sd)>> \o momentum_sentence(sd))
    ELSE IF Len(sd) = 0
    THEN AggRaised("ZeroDivisionError",
                   <<volume_sentence(sd)>> \o momentum_sentence(sd)
                   \o change_sentence(sd))
    ELSE AggReturned(<<volume_sentence(sd)>> \o momentum_sentence(sd)
                     \o change_sentence(sd)
                     \o <<anomaly_count_sentence(sd), trend_sentence(sd)>>
                     \o volatility_sentence(sd) \o <<total_sentence(sd)>>)

\* ---- the symbol maps compute_aggregates is tried on: entries as the
\* analyze handler builds them, and an entry without metrics
AggEntry(vals) == [values |-> vals, metrics |-> compute_metrics(vals)]

AggSeries ==
    { << Point(S_2, S_100) >>,
      << Point(S_3, S_100), Point(S_2, S_100) >>,
      << Point(S_2, S_400), Point(S_3, S_100) >>,
      << Point(<<"1">>, S_100), Point(S_2, S_100) >>,
      << Point(S_3, S_100), Point(S_2, S_100), Point(S_2, S_100),
         Point(S_2, S_100), Point(S_2, S_100) >>,
      << Point(S_2, S_100), Point(S_205, S_100), Point(S_3, S_100),
         Point(S_3, S_100), Point(S_3, S_100) >>,
      << [datetime |-> Str(S_date), close |-> Str(<<"x">>), volume |-> Str(S_100)] >> }

AggEntries ==
    {AggEntry(vals) : vals \in AggSeries} \cup {[values |-> << Point(S_2, S_100) >>]}

SymbolNames == <<"AAPL", "MSFT", "GOOG", "AMZN", "TSLA", "NVDA">>

SymbolMaps ==
    UNION { {[i \in 1..k |-> <<SymbolNames[i], f[i]>>] : f \in [1..k -> AggEntries]} :
            k \in 0..MaxSymbols }

IdleAggregates == agg_symbol_data = <<>> /\ aggregates = NotRun

ComputeAggregates ==
    /\ aggregates = NotRun
    /\ aggregates' = compute_aggregates(agg_symbol_data)
    /\ UNCHANGED <<agg_symbol_data, validateVars, processVars, ingestVars,
                   bedrockVars, metricsVars, laterVars>>

(***************************************************************************)
(* The notifier (infra/modules/notifier/src/notifier_lambda.py).           *)
(* A Python value is kept with its type: a dict is the sequence of its     *)
(* <<key, value>> items in insertion order, a list the sequence of its     *)
(* elements.  A typed attribute value of a stream image is the dict of its *)
(* type tag, {"S": "a"} or {"L": [...]}.                                   *)
(***************************************************************************)
V_str(s)   == [t |-> "str",  s |-> s,  b |-> FALSE, n |-> 0, xs |-> <<>>]
V_int(n)   == [t |-> "int",  s |-> "", b |-> FALSE, n |-> n, xs |-> <<>>]
V_bool(b)  == [t |-> "bool", s |-> "", b |-> b,     n |-> 0, xs |-> <<>>]
V_none     == [t |-> "None", s |-> "", b |-> FALSE, n |-> 0, xs |-> <<>>]
V_list(xs) == [t |-> "list", s |-> "", b |-> FALSE, n |-> 0, xs |-> xs]
V_dict(xs) == [t |-> "dict", s |-> "", b |-> FALSE, n |-> 0, xs |-> xs]

isinstance_dict(val) == val.t = "dict"

\* parse_value(val): the loop over val.items() returns at the first key
\* that is a type tag; a dict without one, and any other value, is
\* returned as it is
RECURSIVE parse_value(_)
RECURSIVE parse_value_items(_, _)
\* parse_value with the elements of an L attribute left wrapped
parse_value_items_flat(val, i) ==
    IF i > Len(val.xs) THEN val
    ELSE LET k == val.xs[i][1]
             v == val.xs[i][2]
         IN  IF k \in {"S", "N", "BOOL"} THEN v
             ELSE IF k = "L" THEN v
             ELSE IF k = "M"
             THEN V_dict([j \in 1..Len(v.xs) |->
                            <<v.xs[j][1], parse_value(v.xs[j][2])>>])
             ELSE IF k = "NULL" THEN V_none
             ELSE parse_value_items(val, i + 1)

parse_value_items(val, i) ==
    IF i > Len(val.xs) THEN val
    ELSE LET k == val.xs[i][1]
             v == val.xs[i][2]
         IN  IF k \in {"S", "N", "BOOL"} THEN v
             ELSE IF k = "L"
             THEN V_list([j \in 1..Len(v.xs) |-> parse_value(v.xs[j])])
             ELSE IF k = "M"
             THEN V_dict([j \in 1..Len(v.xs) |->
                            <<v.xs[j][1], parse_value(v.xs[j][2])>>])
             ELSE IF k = "NULL" THEN V_none
             ELSE parse_value_items(val, i + 1)

parse_value(val) == IF isinstance_dict(val) THEN parse_value_items(val, 1) ELSE val

deserialize_dynamodb_item(item) ==
    V_dict([j \in 1..Len(item.xs) |-> <<item.xs[j][1], parse_value(item.xs[j][2])>>])

\* ---- the images deserialize_dynamodb_item is tried on
MaxDepth == 2

A_S(s)    == V_dict(<< <<"S", V_str(s)>> >>)
A_N(s)    == V_dict(<< <<"N", V_str(s)>> >>)
A_BOOL(b) == V_dict(<< <<"BOOL", V_bool(b)>> >>)
A_NULL    == V_dict(<< <<"NULL", V_bool(TRUE)>> >>)
A_L(xs)   == V_dict(<< <<"L", V_list(xs)>> >>)
A_M(xs)   == V_dict(<< <<"M", V_dict(xs)>> >>)

\* the value of test_deserialize_dynamodb_item_invalid_type
InvalidType == V_dict(<< <<"INVALID", V_str("bad_data")>> >>)

\* scalar attributes, the untagged dict of the test, an untagged key ahead
\* of a tag, and a value that is no dict
Leaves ==
    {A_S("a"), A_N("1"), A_BOOL(FALSE), A_NULL, InvalidType,
     V_dict(<< <<"INVALID", V_str("bad_data")>>, <<"S", V_str("a")>> >>),
     V_str("raw")}

\* attribute values nested to depth d: lists and maps of one or two
\* members, the first of them nested to depth d - 1
RECURSIVE AttributeValues(_)
AttributeValues(d) ==
    IF d = 0 THEN Leaves
    ELSE LET Inner == AttributeValues(d - 1)
         IN  Leaves
             \cup {A_L(<<>>), A_M(<<>>)}
             \cup {A_L(<<v>>) : v \in Inner}
             \cup {A_L(<<v, w>>) : v \in Inner, w \in Leaves}
             \cup {A_M(<< <<"raw", v>> >>) : v \in Inner}
             \cup {A_M(<< <<"raw", v>>, <<"processed", w>> >>) :
                     v \in Inner, w \in Leaves}

ImageInputs ==
    {V_dict(<<>>)}
    \cup {V_dict(<< <<"row_counts", v>> >>) : v \in AttributeValues(MaxDepth)}
    \cup {V_dict(<< <<"analysis_id", w>>, <<"aggregates", v>> >>) :
            w \in {A_S("a"), InvalidType}, v \in AttributeValues(MaxDepth - 1)}

IdleDeserialize == new_image = V_dict(<<>>) /\ deserialized = NotRun

DeserializeDynamodbItem ==
    /\ deserialized = NotRun
    /\ deserialized' = [status |-> "returned",
                        ret |-> deserialize_dynamodb_item(new_image)]
    /\ UNCHANGED <<new_image, analyzeVars, notifierVars, validateVars, processVars,
                   ingestVars, bedrockVars, metricsVars, aggregateVars>>

(***************************************************************************)
(* handler(event, context) of the notifier: one pass of its loop per       *)
(* stream record.  ses_client.send_email either accepts the message or     *)
(* raises ClientError.                                                     *)
(***************************************************************************)
has_key(d, k) == \E j \in 1..Len(d.xs) : d.xs[j][1] = k

\* d.get(k, default)
dict_get(d, k, default) ==
    IF has_key(d, k)
    THEN d.xs[CHOOSE j \in 1..Len(d.xs) : d.xs[j][1] = k][2]
    ELSE default

\* truth value of a Python value
truthy(val) ==
    CASE val.t = "str"  -> val.s # ""
      [] val.t = "int"  -> val.n # 0
      [] val.t = "bool" -> val.b
      [] val.t = "None" -> FALSE
      [] OTHER          -> val.xs # <<>>

is_number(val) == val.t \in {"int", "bool"}
number_of(val) == IF val.t = "bool" THEN (IF val.b THEN 1 ELSE 0) ELSE val.n

NoError == "none"

\* create_html_email: the exception it raises, or NoError.  `total_raw > 0`
\* compares the 'raw' count with an int, the percentages divide by it, and
\* the template formats the three counts with a thousands separator
create_html_email(row_counts, key_anomalies, aggs) ==
    IF ~isinstance_dict(row_counts) THEN "AttributeError"
    ELSE LET total_raw == dict_get(row_counts, "raw", V_int(0))
             processed == dict_get(row_counts, "processed", V_int(0))
             rejected  == dict_get(row_counts, "rejected", V_int(0))
         IN  IF ~is_number(total_raw) THEN "TypeError"
             ELSE IF number_of(total_raw) > 0
                     /\ (~is_number(processed) \/ ~is_number(rejected))
             THEN "TypeError"
             ELSE IF truthy(key_anomalies) /\ ~isinstance_dict(key_anomalies)
             THEN "AttributeError"
             ELSE IF truthy(aggs) /\ aggs.t # "list" THEN "TypeError"
             ELSE IF ~is_number(processed) \/ ~is_number(rejected)
             THEN "ValueError"
             ELSE NoError

\* boto3's serializer as the stream shows it: an int becomes an N attribute
\* holding its decimal text
DecimalDigits == <<"0", "1", "2", "3", "4", "5", "6", "7", "8", "9">>
RECURSIVE str_int(_)
str_int(n) ==
    IF n < 10 THEN DecimalDigits[n + 1]
    ELSE str_int(n \div 10) \o DecimalDigits[(n % 10) + 1]

\* the NewImage of a CombinedRecord put by store_analysis
CombinedImage(analysis_id, raw, processed, rejected) ==
    V_dict(<< <<"analysis_id", A_S(analysis_id)>>,
              <<"aggregates", A_L(<< A_S("Average trading volume") >>)>>,
              <<"executive_summary", A_S("summary")>>,
              <<"key_anomalies", A_M(<< <<"AAPL", A_S("Unusual trading volume")>> >>)>>,
              <<"row_counts", A_M(<< <<"raw", A_N(str_int(raw))>>,
                                     <<"processed", A_N(str_int(processed))>>,
                                     <<"rejected", A_N(str_int(rejected))>> >>)>>,
              <<"correlation_id", A_S("c")>> >>)

\* an image without counts, and the image of the test with an untagged
\* row_counts
BareImage(analysis_id) == V_dict(<< <<"analysis_id", A_S(analysis_id)>> >>)
UntaggedImage(analysis_id) ==
    V_dict(<< <<"analysis_id", A_S(analysis_id)>>, <<"row_counts", InvalidType>> >>)

StreamRecord(name, image) == [eventName |-> name, NewImage |-> image]

MaxStreamRecords == 3

StreamRecords ==
    {StreamRecord("INSERT", CombinedImage("RUN#1", 12, 10, 2)),
     StreamRecord("INSERT", CombinedImage("RUN#2", 0, 0, 0)),
     StreamRecord("INSERT", BareImage("RUN#3")),
     StreamRecord("INSERT", UntaggedImage("RUN#4")),
     StreamRecord("MODIFY", CombinedImage("RUN#1", 12, 10, 2)),
     StreamRecord("MODIFY", BareImage("RUN#3")),
     StreamRecord("REMOVE", BareImage("RUN#3"))}

StreamEvents == SeqsUpTo(StreamRecords, MaxStreamRecords)

IdleNotifier ==
    /\ nf_event = <<>> /\ nf_i = 0 /\ sent = <<>>
    /\ nf_result = [status |-> "idle", exc |-> NoError]

NotifierInit ==
    /\ nf_event \in StreamEvents /\ nf_i = 0 /\ sent = <<>>
    /\ nf_result = [status |-> "running", exc |-> NoError]

\* one pass of the loop: a record that is no INSERT is skipped; an INSERT is
\* deserialized and mailed, and whatever is raised on the way is re-raised
\* by the `except Exception` clause
HandleRecord(ses_ok) ==
    /\ nf_result.status = "running"
    /\ nf_i < Len(nf_event)
    /\ nf_i' = nf_i + 1
    /\ LET rec == nf_event[nf_i + 1]
           item == deserialize_dynamodb_item(rec.NewImage)
           analysis_id == dict_get(item, "analysis_id", V_str("unknown"))
           row_counts == dict_get(item, "row_counts",
                                  V_dict(<< <<"raw", V_int(0)>>,
                                            <<"processed", V_int(0)>>,
                                            <<"rejected", V_int(0)>> >>))
           key_anomalies == dict_get(item, "key_anomalies", V_dict(<<>>))
           aggs == dict_get(item, "aggregates", V_list(<<>>))
           html == create_html_email(row_counts, key_anomalies, aggs)
       IN  IF rec.eventName # "INSERT"
           THEN UNCHANGED <<sent, nf_result>>
           ELSE IF html # NoError
           THEN /\ nf_result' = [status |-> "raised", exc |-> html]
                /\ UNCHANGED sent
           ELSE IF ~ses_ok
           THEN /\ nf_result' = [status |-> "raised", exc |-> "ClientError"]
                /\ UNCHANGED sent
           ELSE /\ sent' = Append(sent, [record |-> nf_i + 1,
                                         analysis_id |-> analysis_id])
                /\ UNCHANGED nf_result
    /\ UNCHANGED <<nf_event, analyzeVars, deserializeVars, validateVars, processVars,
                   ingestVars, bedrockVars, metricsVars, aggregateVars>>

\* the loop is over: return {'statusCode': 200}
HandlerReturn ==
    /\ nf_result.status = "running"
    /\ nf_i = Len(nf_event)
    /\ nf_result' = [status |-> "returned", exc |-> NoError]
    /\ UNCHANGED <<nf_event, nf_i, sent, analyzeVars, deserializeVars, validateVars,
                   processVars, ingestVars, bedrockVars, metricsVars, aggregateVars>>

(***************************************************************************)
(* lambda_handler(event, context) of the analyzer, and store_analysis.     *)
(* The handler reads the processed partition named by the event, groups    *)
(* its records by symbol in file order, computes the metrics of every      *)
(* symbol and the aggregates, calls call_bedrock and stores the result.    *)
(* call_bedrock is taken by its outcomes: the decoded payload of a         *)
(* response, None when the retry loop ran out, or an exception.  TABLE_NAME *)
(* is set by the deployment.                                               *)
(***************************************************************************)
\* record.get("symbol", "unknown")
symbol_of(rec) == IF "symbol" \in DOMAIN rec THEN rec.symbol ELSE "unknown"

has_symbol(sd, symbol) == \E i \in 1..Len(sd) : sd[i][1] = symbol

\* the grouping loop: a record is appended to the values of its symbol, a
\* new symbol is added behind the symbols already met
RECURSIVE group_by_symbol(_, _)
group_by_symbol(records, sd) ==
    IF records = <<>> THEN sd
    ELSE LET rec == Head(records)
             symbol == symbol_of(rec)
         IN  group_by_symbol(
                 Tail(records),
                 IF has_symbol(sd, symbol)
                 THEN [i \in 1..Len(sd) |->
                          IF sd[i][1] = symbol
                          THEN <<symbol, [values |-> Append(sd[i][2].values, rec)]>>
                          ELSE sd[i]]
                 ELSE Append(sd, <<symbol, [values |-> <<rec>>]>>))

\* the metrics loop; compute_metrics catches what it raises, so the
\* fallback of the handler is never taken
with_metrics(sd) ==
    [i \in 1..Len(sd) |-> <<sd[i][1], AggEntry(sd[i][2].values)>>]

keys(sd) == {sd[i][1] : i \in 1..Len(sd)}

\* what call_bedrock hands back: `complete` tells whether every analysis of
\* the payload carries 'key_anomaly'
BedrockReturned(p, complete) ==
    [status |-> "returned", payload |-> p, complete |-> complete]
BedrockRaised == [status |-> "raised", payload |-> NoPayload, complete |-> FALSE]

BedrockOutcomes ==
    {BedrockReturned(p, c) : p \in Payloads, c \in BOOLEAN}
    \cup {BedrockReturned(PyNone, FALSE), BedrockRaised}

\* the key_anomalies comprehension with a missing output read as {}
key_anomalies_of_lenient(output) ==
    IF output.payload.kind = "object"
       /\ output.payload.symbols # {} /\ ~output.complete
    THEN "KeyError"
    ELSE NoError

\* the key_anomalies comprehension: output.get of None or of a list raises
\* AttributeError, analysis["key_anomaly"] of an analysis without it raises
\* KeyError
key_anomalies_of(output) ==
    IF output.payload.kind # "object" THEN "AttributeError"
    ELSE IF output.payload.symbols # {} /\ ~output.complete THEN "KeyError"
    ELSE NoError

\* the insights comprehension with the metrics read by .get(symbol, {})
insights_of_lenient(output, sd) == NoError

\* the insights comprehension: symbol_data[symbol] of a symbol that is not
\* in symbol_data raises KeyError
insights_of(output, sd) ==
    IF \E symbol \in output.payload.symbols : ~has_symbol(sd, symbol)
    THEN "KeyError"
    ELSE NoError

\* the row counts of the item: the counts of the event detail, or when both
\* are zero the number of lines of the partition read again, or zero when
\* that read fails
row_counts_of(event, records, fallback_ok) ==
    IF event.valid_count = 0 /\ event.invalid_count = 0
    THEN IF fallback_ok
         THEN [raw |-> Len(records), processed |-> Len(records), rejected |-> 0]
         ELSE [raw |-> 0, processed |-> 0, rejected |-> 0]
    ELSE [raw |-> event.valid_count + event.invalid_count,
          processed |-> event.valid_count, rejected |-> event.invalid_count]

CombinedRecord(output, sd, aggs, counts) ==
    [analysis_id |-> "RUN#1",
     symbols_analyzed |-> [i \in 1..Len(sd) |-> sd[i][1]],
     insights |-> output.payload.symbols,
     aggregates |-> aggs,
     key_anomalies |-> output.payload.symbols,
     row_counts |-> counts]

\* ---- the partitions and events the handler is tried on
MaxRecords == 3

Rec(symbol, date, close, volume) ==
    [symbol |-> symbol, datetime |-> Str(date), close |-> Str(close),
     volume |-> Str(volume)]

PartitionRecords ==
    {Rec("AAPL", d, c, S_100) : d \in {S_date, S_date2}, c \in {S_2, S_3}}
    \cup {Rec("MSFT", d, S_2, S_100) : d \in {S_date, S_date2}}
    \cup {Rec("AAPL", S_date, S_2, <<"1", ".", "5">>),
          Rec("MSFT", S_date, <<"x">>, S_100),
          [datetime |-> Str(S_date), close |-> Str(S_2), volume |-> Str(S_100)]}

Partitions == SeqsUpTo(PartitionRecords, MaxRecords)

AnalyzeEvents ==
    {[valid_count |-> 0, invalid_count |-> 0], [valid_count |-> 2, invalid_count |-> 1]}

AnalyzeRunning == [status |-> "running", exc |-> NoError, at |-> "none"]
Returned200 == [status |-> "returned", exc |-> NoError, at |-> "none"]
RaisedAt(exc, at) == [status |-> "raised", exc |-> exc, at |-> at]

IdleAnalyze ==
    /\ an_pc = "idle"
    /\ an_event = [valid_count |-> 0, invalid_count |-> 0]
    /\ an_partition = <<>>
    /\ an_symbol_data = <<>>
    /\ an_aggregates = NotRun
    /\ an_output = NotRun
    /\ an_table = <<>>
    /\ an_result = [status |-> "idle", exc |-> NoError, at |-> "none"]

AnalyzeInit ==
    /\ an_pc = "get_object"
    /\ an_event \in AnalyzeEvents
    /\ an_partition \in Partitions
    /\ an_symbol_data = <<>>
    /\ an_aggregates = NotRun
    /\ an_output = NotRun
    /\ an_table = <<>>
    /\ an_result = AnalyzeRunning

\* get_object, the grouping, the metrics of every symbol, compute_aggregates
ReadPartition(get_ok) ==
    /\ an_pc = "get_object"
    /\ IF ~get_ok
       THEN /\ an_pc' = "done"
            /\ an_result' = RaisedAt("ClientError", "get_object")
            /\ UNCHANGED <<an_symbol_data, an_aggregates>>
       ELSE LET sd == with_metrics(group_by_symbol(an_partition, <<>>))
                aggs == compute_aggregates(sd)
            IN  /\ an_symbol_data' = sd
                /\ an_aggregates' = aggs
                /\ IF aggs.status = "raised"
                   THEN /\ an_pc' = "done"
                        /\ an_result' = RaisedAt(aggs.exc, "compute_aggregates")
                   ELSE /\ an_pc' = "call_bedrock"
                        /\ UNCHANGED an_result
    /\ UNCHANGED <<an_event, an_partition, an_output, an_table>>
    /\ UNCHANGED <<deserializeVars, notifierVars, validateVars, processVars,
                   ingestVars, bedrockVars, metricsVars, aggregateVars>>

\* output = call_bedrock(symbol_data, aggregates, correlation_id, context)
CallBedrock(outcome) ==
    /\ an_pc = "call_bedrock"
    /\ an_output' = outcome
    /\ IF outcome.status = "raised"
       THEN /\ an_pc' = "done"
            /\ an_result' = RaisedAt("Exception", "call_bedrock")
       ELSE /\ an_pc' = "store_analysis"
            /\ UNCHANGED an_result
    /\ UNCHANGED <<an_event, an_partition, an_symbol_data, an_aggregates, an_table>>
    /\ UNCHANGED <<deserializeVars, notifierVars, validateVars, processVars,
                   ingestVars, bedrockVars, metricsVars, aggregateVars>>

\* store_analysis, and the return of the handler behind it
StoreAnalysis(fallback_ok, put_ok) ==
    /\ an_pc = "store_analysis"
    /\ an_pc' = "done"
    /\ LET counts == row_counts_of(an_event, an_partition, fallback_ok)
       IN  IF key_anomalies_of(an_output) # NoError
           THEN /\ an_result' = RaisedAt(key_anomalies_of(an_output), "key_anomalies")
                /\ UNCHANGED an_table
           ELSE IF insights_of(an_output, an_symbol_data) # NoError
           THEN /\ an_result' = RaisedAt(insights_of(an_output, an_symbol_data),
                                         "insights")
                /\ UNCHANGED an_table
           ELSE IF ~put_ok
           THEN /\ an_result' = RaisedAt("ClientError", "put_item")
                /\ UNCHANGED an_table
           ELSE /\ an_table' = Append(an_table,
                                      CombinedRecord(an_output, an_symbol_data,
                                                     compute_aggregates(an_symbol_data),
                                                     counts))
                /\ an_result' = Returned200
    /\ UNCHANGED <<an_event, an_partition, an_symbol_data, an_aggregates, an_output>>
    /\ UNCHANGED <<deserializeVars, notifierVars, validateVars, processVars,
                   ingestVars, bedrockVars, metricsVars, aggregateVars>>

(***************************************************************************)
(* Specifications.                                                         *)
(***************************************************************************)
InitValidate ==
    /\ record \in RecordInputs /\ vr = NotRun
    /\ IdleProcess /\ IdleIngest /\ IdleBedrock /\ IdleMetrics /\ IdleAggregates
    /\ IdleAnalyze /\ IdleDeserialize /\ IdleNotifier
NextValidate == ValidateRecord
SpecValidate == InitValidate /\ [][NextValidate]_vars

InitProcess ==
    /\ data \in BatchInputs /\ psd = NotRun
    /\ IdleValidate /\ IdleIngest /\ IdleBedrock /\ IdleMetrics /\ IdleAggregates
    /\ IdleAnalyze /\ IdleDeserialize /\ IdleNotifier
NextProcess == ProcessStockData
SpecProcess == InitProcess /\ [][NextProcess]_vars

InitIngest ==
    /\ IngestInit
    /\ IdleValidate /\ IdleProcess /\ IdleBedrock /\ IdleMetrics /\ IdleAggregates
    /\ IdleAnalyze /\ IdleDeserialize /\ IdleNotifier
NextIngest ==
    \/ \E r \in Runs, e \in EventInputs : Invoke(r, e)
    \/ \E r \in Runs : HeadObject(r)
    \/ \E r \in Runs : HeadMarker(r)
    \/ \E r \in Runs : GetObject(r)
    \/ \E r \in Runs : WriteValid(r)
    \/ \E r \in Runs : WriteRejects(r)
    \/ \E r \in Runs : PublishRejectMetric(r)
    \/ \E r \in Runs : WriteMarker(r)
    \/ \E r \in Runs : PutEvents(r)
SpecIngest == InitIngest /\ [][NextIngest]_vars

InitBedrock ==
    /\ BedrockInit
    /\ IdleValidate /\ IdleProcess /\ IdleIngest /\ IdleMetrics /\ IdleAggregates
    /\ IdleAnalyze /\ IdleDeserialize /\ IdleNotifier
NextBedrock == \E resp \in Responses : Attempt(resp)
SpecBedrock == InitBedrock /\ [][NextBedrock]_vars

InitMetrics ==
    /\ cm_values \in SeriesInputs /\ metrics = NotRun
    /\ IdleValidate /\ IdleProcess /\ IdleIngest /\ IdleBedrock /\ IdleAggregates
    /\ IdleAnalyze /\ IdleDeserialize /\ IdleNotifier
NextMetrics == ComputeMetrics
SpecMetrics == InitMetrics /\ [][NextMetrics]_vars

InitAggregates ==
    /\ agg_symbol_data \in SymbolMaps /\ aggregates = NotRun
    /\ IdleValidate /\ IdleProcess /\ IdleIngest /\ IdleBedrock /\ IdleMetrics
    /\ IdleAnalyze /\ IdleDeserialize /\ IdleNotifier
NextAggregates == ComputeAggregates
SpecAggregates == InitAggregates /\ [][NextAggregates]_vars

InitAnalyze ==
    /\ AnalyzeInit
    /\ IdleValidate /\ IdleProcess /\ IdleIngest /\ IdleBedrock /\ IdleMetrics
    /\ IdleAggregates /\ IdleDeserialize /\ IdleNotifier
NextAnalyze ==
    \/ \E get_ok \in BOOLEAN : ReadPartition(get_ok)
    \/ \E outcome \in BedrockOutcomes : CallBedrock(outcome)
    \/ \E fallback_ok \in BOOLEAN, put_ok \in BOOLEAN : StoreAnalysis(fallback_ok, put_ok)
SpecAnalyze == InitAnalyze /\ [][NextAnalyze]_vars

InitDeserialize ==
    /\ new_image \in ImageInputs /\ deserialized = NotRun
    /\ IdleValidate /\ IdleProcess /\ IdleIngest /\ IdleBedrock /\ IdleMetrics
    /\ IdleAggregates /\ IdleAnalyze /\ IdleNotifier
NextDeserialize == DeserializeDynamodbItem
SpecDeserialize == InitDeserialize /\ [][NextDeserialize]_vars

InitNotifier ==
    /\ NotifierInit
    /\ IdleValidate /\ IdleProcess /\ IdleIngest /\ IdleBedrock /\ IdleMetrics
    /\ IdleAggregates /\ IdleAnalyze /\ IdleDeserialize
NextNotifier ==
    \/ \E ses_ok \in BOOLEAN : HandleRecord(ses_ok)
    \/ HandlerReturn
SpecNotifier == InitNotifier /\ [][NextNotifier]_vars

(***************************************************************************)
(* Properties of call_bedrock (SpecBedrock).                               *)
(***************************************************************************)
Terminated == cb_pc \in {"returned", "raised"}

\* C1: when every one of the max_retries attempts has failed with a
\* retryable error, call_bedrock has emitted the BedrockRetryExceeded metric
\* exactly once and raises; it does not return normally.
C1_ExhaustionEmitsMetricAndRaises ==
    (Terminated /\ attempts = max_retries /\ failures = max_retries)
        => (cb_pc = "raised" /\ metric_count = 1)

\* C2: an undecodable response on an attempt n < max_retries is a retryable
\* failure: after it call_bedrock has paused n times and is about to make
\* attempt n + 1; it has not failed the run.
C2_UndecodableResponseIsRetried ==
    (last = "undecodable" /\ attempts < max_retries)
        => (cb_pc = "loop" /\ Len(slept) = attempts)

\* C3: a returned result never has a key in 'symbols' that is not a symbol
\* of the input symbol_data.
C3_ReturnedSymbolsAreInputSymbols ==
    (cb_pc = "returned" /\ cb_result.kind = "object")
        => cb_result.symbols \subseteq DOMAIN symbol_data

(***************************************************************************)
(* Properties of the ingest lambda_handler (SpecIngest).                   *)
(***************************************************************************)
Has(r, call) == \E i \in 1..Len(log[r]) : log[r][i] = call
At(r, call)  == CHOOSE i \in 1..Len(log[r]) : log[r][i] = call

IsPrefix(s, t) == Len(s) <= Len(t) /\ SubSeq(t, 1, Len(s)) = s

\* run r was invoked for an input batch whose fingerprint had already been
\* processed with success by a run that had returned
LaterRun(r) ==
    /\ pc[r] # "idle"
    /\ ev[r].records = 1
    /\ ev[r].key \in InputKeys
    /\ bodies[ev[r].key].etag \in prior[r]

SkipLog == <<"head_object", "head_marker:found">>

WroteNothing(r) ==
    /\ ~Has(r, "get_object")
    /\ ~Has(r, "put_valid") /\ ~Has(r, "put_rejects")
    /\ ~Has(r, "put_marker") /\ ~Has(r, "put_events")
    /\ \A o \in objects : o.by # r
    /\ \A m \in markers : m.correlation_id # r
    /\ \A e \in events : e.by # r

\* C4 as stated: every later run with the fingerprint of a batch already
\* processed with success finds the marker and returns a zero-count success,
\* having read no body and written nothing.
C4_LaterRunAlwaysSkipsWithSuccess ==
    \A r \in Runs :
        (LaterRun(r) /\ pc[r] = "done")
            => /\ result[r] = Returned("already processed", 0, 0)
               /\ log[r] = SkipLog
               /\ WroteNothing(r)

\* C4 as amended: a later run with that fingerprint reads no body, writes no
\* partition, rewrites no marker and publishes no event; when both of its
\* head_object calls are answered it finds the marker and returns the
\* zero-count success, and otherwise it raises at the head_object call that
\* failed.
C4_LaterRunNeverReprocesses ==
    \A r \in Runs :
        LaterRun(r)
            => /\ WroteNothing(r)
               /\ IsPrefix(log[r], SkipLog)
               /\ pc[r] \in {"head_object", "head_marker", "done"}
               /\ (log[r] = SkipLog => result[r] = Returned("already processed", 0, 0))
               /\ (pc[r] = "done" /\ log[r] # SkipLog
                     => /\ result[r].status = "raised"
                        /\ result[r].at \in {"head_object", "head_marker"})

C4_Witness ==
    \E r \in Runs :
        /\ LaterRun(r)
        /\ result[r] = Returned("already processed", 0, 0)
        /\ \E q \in Runs : q # r /\ etag[q] = etag[r] /\ Has(q, "put_marker")

\* C5: in every run the marker is written only after validation has
\* finished and both write_to_s3 calls (valid partition, then rejects
\* partition) have come back without raising; a run that raised at either
\* partition write has written no marker.
PartitionDone(r, call) == Has(r, "put_" \o call) \/ Has(r, "skip_" \o call)
PartitionAt(r, call) ==
    IF Has(r, "put_" \o call) THEN At(r, "put_" \o call) ELSE At(r, "skip_" \o call)

C5_MarkerOnlyAfterBothPartitions ==
    /\ \A r \in Runs :
          Has(r, "put_marker")
              => /\ Has(r, "get_object")
                 /\ PartitionDone(r, "valid") /\ PartitionDone(r, "rejects")
                 /\ At(r, "get_object") < PartitionAt(r, "valid")
                 /\ PartitionAt(r, "valid") < PartitionAt(r, "rejects")
                 /\ PartitionAt(r, "rejects") < At(r, "put_marker")
                 /\ Len(recs[r].valid) > 0 => Has(r, "put_valid")
                 /\ Len(recs[r].invalid) > 0 => Has(r, "put_rejects")
    /\ \A r \in Runs :
          (result[r].status = "raised"
             /\ result[r].at \in {"write_valid", "write_rejects"})
              => /\ ~Has(r, "put_marker")
                 /\ \A m \in markers : m.correlation_id # r
    /\ \A m \in markers : Has(m.correlation_id, "put_marker")

C5_Witness ==
    \E r \in Runs :
        /\ Has(r, "put_valid") /\ Has(r, "put_rejects") /\ Has(r, "put_marker")
        /\ \E m \in markers : m.correlation_id = r

\* C10: a run that ended by raising has persisted no valid partition, no
\* rejects partition and no marker.
C10_RaisedRunPersistedNothing ==
    \A r \in Runs :
        result[r].status = "raised"
            => /\ ~Has(r, "put_valid") /\ ~Has(r, "put_rejects")
               /\ ~Has(r, "put_marker")
               /\ \A o \in objects : o.by # r
               /\ \A m \in markers : m.correlation_id # r

(***************************************************************************)
(* Properties of process_stock_data (SpecProcess).                         *)
(***************************************************************************)
\* the batch is in the documented input format: every symbol entry has
\* 'values' and a 'meta' with symbol, interval and currency
InputFormat(items) == \A i \in 1..Len(items) : WellFormedEntry(items[i][2])

\* the flattened records of the batch, in input order
RECURSIVE FlatRecords(_, _)
FlatRecords(items, i) ==
    IF i > Len(items) THEN <<>>
    ELSE LET sd == items[i][2]
         IN  [j \in 1..Len(sd["values"]) |->
                 Flatten(sd["values"][j], items[i][1], sd["meta"])]
             \o FlatRecords(items, i + 1)

LacksField(rec) == ~(RequiredSet \subseteq DOMAIN rec)
IsValidRecord(rec) == validate_record(rec).ok
IsInvalidRecord(rec) == ~validate_record(rec).ok
Rejected(rec) == WithError(rec, validate_record(rec))
InSeq(x, sq) == \E k \in 1..Len(sq) : sq[k] = x

\* C6: a record that lacks a required field does not make
\* process_stock_data raise: it is in invalid_records with the 'Missing
\* required fields' error, and every other record of the batch is
\* classified as well.
C6_MissingFieldIsNotFatal ==
    LET flat == FlatRecords(data, 1)
    IN  (/\ psd.status # "not_run"
         /\ InputFormat(data)
         /\ \E k \in 1..Len(flat) : LacksField(flat[k]))
            => /\ psd.status = "returned"
               /\ \A k \in 1..Len(flat) :
                     IF LacksField(flat[k])
                     THEN /\ InSeq(WithError(flat[k], ErrMissing(flat[k])), psd.invalid)
                          /\ ~InSeq(flat[k], psd.valid)
                     ELSE InSeq(flat[k], psd.valid) \/ InSeq(Rejected(flat[k]), psd.invalid)

\* C7: every record listed under 'values' of the batch is in exactly one
\* of valid_records and invalid_records, in input order: the two lists are
\* the valid and the rejected subsequence of the input, and their lengths
\* add up to the number of input records.
C7_EveryRecordClassifiedOnce ==
    LET flat == FlatRecords(data, 1)
        bad  == SelectSeq(flat, IsInvalidRecord)
    IN  (psd.status # "not_run" /\ InputFormat(data))
            => /\ psd.status = "returned"
               /\ psd.valid = SelectSeq(flat, IsValidRecord)
               /\ psd.invalid = [k \in 1..Len(bad) |-> Rejected(bad[k])]
               /\ Len(psd.valid) + Len(psd.invalid) = Len(flat)

(***************************************************************************)
(* Properties of validate_record (SpecValidate).                           *)
(***************************************************************************)
Zero == [ok |-> TRUE, nan |-> FALSE, v |-> 0]

IsDateString(v)   == isinstance_str(v) /\ strptime_ymd(v.s)
IsPriceString(v)  == isinstance_str(v) /\ float(v.s).ok /\ ~FloatLt(float(v.s), Zero)
IsVolumeString(v) == isinstance_str(v) /\ int(v.s).ok /\ int(v.s).v >= 0
Contained(rec) ==
    LET o == float(rec["open"].s)
        h == float(rec["high"].s)
        l == float(rec["low"].s)
        c == float(rec["close"].s)
    IN  /\ FloatLe(l, o) /\ FloatLe(o, h)
        /\ FloatLe(l, c) /\ FloatLe(c, h)

\* the records the five rules accept
SatisfiesRules(rec) ==
    /\ RequiredSet \subseteq DOMAIN rec
    /\ IsDateString(rec["datetime"])
    /\ \A i \in 1..Len(PriceFields) : IsPriceString(rec[PriceFields[i]])
    /\ IsVolumeString(rec["volume"])
    /\ Contained(rec)

\* the checks in their order: 1 required fields, 2 datetime, 3..6 open, high,
\* low, close, 7 volume, 8 OHLC containment
Violates(rec, k) ==
    CASE k = 1 -> ~(RequiredSet \subseteq DOMAIN rec)
      [] k = 2 -> "datetime" \in DOMAIN rec /\ ~IsDateString(rec["datetime"])
      [] k \in 3..6 -> /\ PriceFields[k - 2] \in DOMAIN rec
                       /\ ~IsPriceString(rec[PriceFields[k - 2]])
      [] k = 7 -> "volume" \in DOMAIN rec /\ ~IsVolumeString(rec["volume"])
      [] k = 8 -> /\ \A i \in 1..Len(PriceFields) :
                        /\ PriceFields[i] \in DOMAIN rec
                        /\ isinstance_str(rec[PriceFields[i]])
                        /\ float(rec[PriceFields[i]].s).ok
                  /\ ~Contained(rec)

ViolatedChecks(rec) == {k \in 1..8 : Violates(rec, k)}

\* the check an error message names, 0 for a message that names none
CheckNamed(msg) ==
    IF msg.text = "Missing required fields" THEN 1
    ELSE IF msg.text = "Invalid datetime format" THEN 2
    ELSE IF msg.text \in {"is not a string", "is not a valid float", "cannot be negative"}
            /\ \E i \in 1..Len(PriceFields) : PriceFields[i] = msg.field
         THEN 2 + (CHOOSE i \in 1..Len(PriceFields) : PriceFields[i] = msg.field)
    ELSE IF msg.text \in {"is not a string", "is not a valid integer", "cannot be negative"}
            /\ msg.field = "volume"
         THEN 7
    ELSE IF msg.text = OhlcText THEN 8
    ELSE 0

\* C8: validate_record returns (True, "") exactly for the records that
\* satisfy the five rules, and for every other record (False, msg) with a
\* non-empty msg that names a rule the record violates.
C8_ValidExactlyWhenRulesHold ==
    vr.status = "returned"
        => /\ vr.ret.ok <=> SatisfiesRules(record)
           /\ vr.ret.ok => vr.ret = Ok
           /\ ~vr.ret.ok => /\ vr.ret.text # ""
                            /\ CheckNamed(vr.ret) \in ViolatedChecks(record)

C8_Witness ==
    /\ vr.status = "returned"
    /\ vr.ret = Ok
    /\ float(record["low"].s).v < float(record["high"].s).v

\* C9: the error reported is that of the earliest failing check in the
\* order missing fields, datetime, open, high, low, close, volume, OHLC
\* containment, whatever later checks the record fails as well; a price or
\* volume message carries the offending value.
C9_EarliestFailingCheckIsReported ==
    (vr.status = "returned" /\ ~vr.ret.ok)
        => /\ CheckNamed(vr.ret) \in ViolatedChecks(record)
           /\ \A k \in ViolatedChecks(record) : CheckNamed(vr.ret) <= k
           /\ vr.ret.field # "" => vr.ret.val = record[vr.ret.field]
           /\ vr.ret.text = "Missing required fields"
                 => vr.ret.missing = RequiredSet \ DOMAIN record

C9_Witness ==
    /\ vr.status = "returned"
    /\ {2, 4, 7, 8} \subseteq ViolatedChecks(record)
    /\ CheckNamed(vr.ret) = 2

(***************************************************************************)
(* The IngestorCompleted event of a run.                                   *)
(***************************************************************************)
ProcessedRun(r) ==
    /\ result[r].status = "returned"
    /\ result[r].message = "processed"

EventsOf(r) == {e \in events : e.by = r}

AnnouncesRun(e, r) ==
    /\ e.detail_type = "IngestorCompleted"
    /\ e.key = processed_key[r]
    /\ e.key # NoKey
    /\ e.key \in {o.key : o \in objects}
    /\ e.valid_count = result[r].valid_count
    /\ e.invalid_count = result[r].invalid_count

\* C11 as stated: every run that processed a batch and returned statusCode
\* 200 has published exactly one IngestorCompleted event with the processed
\* partition's key and the counts, whatever the mix of records.
C11_ProcessedRunPublishedOneEvent ==
    \A r \in Runs :
        ProcessedRun(r) =>
            /\ Cardinality(EventsOf(r)) = 1
            /\ \A e \in EventsOf(r) : AnnouncesRun(e, r)

\* C11 amended: a run that processed a batch and returned statusCode 200 has
\* published exactly one IngestorCompleted event, with the processed
\* partition's key and the counts, when the batch held a valid record, and no
\* event at all when it held none (no processed partition was written).
C11_ProcessedRunPublishedOneEventIfAnyValid ==
    \A r \in Runs :
        ProcessedRun(r) =>
            IF result[r].valid_count > 0
            THEN /\ Cardinality(EventsOf(r)) = 1
                 /\ \A e \in EventsOf(r) : AnnouncesRun(e, r)
                 /\ Has(r, "put_events")
            ELSE /\ EventsOf(r) = {}
                 /\ processed_key[r] = NoKey
                 /\ ~Has(r, "put_events")

\* two runs returned after processing: one of a batch with valid records
\* that published its event, one of a batch without a valid record that
\* published none
C11_Witness ==
    \E r, q \in Runs :
        /\ ProcessedRun(r) /\ result[r].valid_count > 0
        /\ EventsOf(r) # {}
        /\ ProcessedRun(q) /\ result[q].valid_count = 0
        /\ result[q].invalid_count > 0 /\ EventsOf(q) = {}

(***************************************************************************)
(* Runs of one fingerprint that both write its partitions.                 *)
(***************************************************************************)
WrotePartition(r) == Has(r, "put_valid") \/ Has(r, "put_rejects")

\* one of the two runs made its marker check while the other was between
\* its own marker check and its return
Overlapped(r, q) == r \in window[q] \/ q \in window[r]

WrittenTwice(r, q) ==
    /\ r # q
    /\ etag[r] # "" /\ etag[r] = etag[q]
    /\ WrotePartition(r) /\ WrotePartition(q)

\* C12: the partitions of one fingerprint are written by two runs only when
\* the two runs overlapped in the check-then-act window; runs executed one
\* strictly after the other, a failed run and its retry included, never
\* write them twice.
C12_WrittenTwiceOnlyInWindow ==
    \A r, q \in Runs : WrittenTwice(r, q) => Overlapped(r, q)

\* a run that wrote a partition and then raised before its marker was put
RaisedAfterWrite(r) ==
    /\ WrotePartition(r)
    /\ result[r].status = "raised"
    /\ result[r].at \in {"write_rejects", "write_marker"}

\* the same statement for runs none of which raised after a partition write
C12_WrittenTwiceOnlyInWindowOrAfterFailure ==
    \A r, q \in Runs :
        WrittenTwice(r, q) =>
            Overlapped(r, q) \/ RaisedAfterWrite(r) \/ RaisedAfterWrite(q)

\* two overlapping runs of one fingerprint have both written its partitions
C12_RaceReached ==
    \E r, q \in Runs : WrittenTwice(r, q) /\ Overlapped(r, q)

(***************************************************************************)
(* Properties of compute_metrics (SpecMetrics).                            *)
(***************************************************************************)
Computed == metrics # NotRun

\* the closes and volumes of the series, when every one of them parses
Parses ==
    \A i \in 1..Len(cm_values) : close_of(cm_values[i]).ok /\ volume_of(cm_values[i]).ok
Succeeded == Computed /\ cm_values # <<>> /\ Parses
Closes  == [i \in 1..Len(cm_values) |-> close_of(cm_values[i]).v]
Volumes == [i \in 1..Len(cm_values) |-> volume_of(cm_values[i]).v]
LatestClose == Closes[1]
PrevClose   == IF Len(cm_values) >= 2 THEN Closes[2] ELSE Closes[1]
NonNegativeCloses == \A i \in 1..Len(cm_values) : Closes[i] >= 0

\* C15: on a non-empty series that is computed, trend is 'up' exactly when
\* latest_close > prev_close, 'down' exactly when latest_close < prev_close
\* and 'flat' exactly when they are equal, zero closes included.
C15_TrendFollowsComparison ==
    (Succeeded /\ NonNegativeCloses) =>
        /\ metrics.ret.trend = "up"   <=> LatestClose > PrevClose
        /\ metrics.ret.trend = "down" <=> LatestClose < PrevClose
        /\ metrics.ret.trend = "flat" <=> LatestClose = PrevClose

HasAnomaly(text) ==
    \E i \in 1..Len(metrics.ret.anomalies) : metrics.ret.anomalies[i].text = text

\* C16: on a non-empty series of non-negative closes that is computed, the
\* 'Sharp price movement' anomaly is present exactly when
\* |latest_close - prev_close| > 0.05 * prev_close, zero closes included.
C16_PriceJumpIffOverFivePercent ==
    (Succeeded /\ NonNegativeCloses) =>
        (HasAnomaly("Sharp price movement on")
            <=> 20 * Abs(LatestClose - PrevClose) > PrevClose)

\* C17: on a non-empty series that is computed, the 'Unusual trading volume'
\* anomaly is present exactly when the latest volume exceeds 1.5 times the
\* mean of all the volumes of the series, and then it is the first anomaly.
C17_VolumeAnomalyIffOverMean ==
    Succeeded =>
        /\ HasAnomaly("Unusual trading volume on")
               <=> 2 * Volumes[1] * Len(Volumes) > 3 * Sum(Volumes)
        /\ HasAnomaly("Unusual trading volume on")
               => metrics.ret.anomalies[1].text = "Unusual trading volume on"

\* a series of more than 5 points whose latest volume exceeds 1.5 times the
\* mean of all volumes but not 1.5 times the mean of the first 5
C17_Witness ==
    /\ Succeeded
    /\ Len(Volumes) > 5
    /\ 2 * Volumes[1] * 5 <= 3 * Sum(First5(Volumes))
    /\ HasAnomaly("Unusual trading volume on")

C19_EmptySeriesIsNeutral ==
    (Computed /\ cm_values = <<>>) =>
        /\ metrics.status = "returned"
        /\ metrics.ret.latest_close = None
        /\ metrics.ret.trend = "flat"
        /\ metrics.ret.momentum = None
        /\ metrics.ret.volatility = 0
        /\ metrics.ret.avg_volume = Whole(0)
        /\ metrics.ret.percent_change = 0
        /\ metrics.ret.anomalies = <<>>

C19_Witness == Computed /\ cm_values = <<>> /\ metrics.ret.trend = "flat"

(***************************************************************************)
(* Properties of compute_aggregates (SpecAggregates).                      *)
(***************************************************************************)
Aggregated == aggregates # NotRun

Categories ==
    <<"volume", "momentum", "percent_change", "anomaly_count", "trend",
      "volatility", "total_anomalies">>

CategoriesOf(sentences) == [i \in 1..Len(sentences) |-> sentences[i].category]

\* C13: compute_aggregates of an empty symbol map does not raise and returns
\* a list of sentences.
C13_EmptyMapDoesNotRaise ==
    (Aggregated /\ agg_symbol_data = <<>>) => aggregates.status = "returned"

AllCarryMetrics ==
    \A i \in 1..Len(agg_symbol_data) : HasMetrics(agg_symbol_data[i])

\* C14: for a non-empty symbol map whose entries all carry metrics,
\* compute_aggregates returns exactly seven sentences, one per category in
\* the fixed order, also when every momentum is null.
C14_SevenSentencesInOrder ==
    (Aggregated /\ agg_symbol_data # <<>> /\ AllCarryMetrics) =>
        /\ aggregates.status = "returned"
        /\ CategoriesOf(aggregates.aggregates) = Categories

(***************************************************************************)
(* The pauses of call_bedrock (SpecBedrock).                               *)
(***************************************************************************)
RECURSIVE Pow2(_)
Pow2(k) == IF k = 0 THEN 1 ELSE 2 * Pow2(k - 1)

\* C20: an execution of call_bedrock makes at most max_retries = 5 calls of
\* bedrock.converse, its k-th pause lasts initial_delay * 2^(k-1) seconds
\* (1, 2, 4, 8, ...), and its pauses add up to at most
\* initial_delay * (2^max_retries - 1) = 31 seconds.
C20_CallsAndPausesAreBounded ==
    /\ calls <= max_retries
    /\ attempts <= max_retries
    /\ \A k \in 1..Len(slept) : slept[k] = initial_delay * Pow2(k - 1)
    /\ Sum(slept) <= initial_delay * (Pow2(max_retries) - 1)
    /\ Sum(slept) <= 31

\* five calls have failed and the five pauses add up to 31 seconds
C20_Witness ==
    /\ calls = max_retries
    /\ Len(slept) = max_retries
    /\ Sum(slept) = 31
    /\ cb_pc = "returned"

(***************************************************************************)
(* A failed emission of the RejectedPercentage metric (SpecIngest).        *)
(***************************************************************************)
MetricFailed(r) == Has(r, "metric_failed")

\* C24: a run whose put_metric_data raised is not failed by it: it goes on
\* to the marker write, it raises only where a marker write or a
\* put_events fails, and when it returns it has written the marker,
\* published the event of its processed partition and returns the counts
\* of its valid and invalid records, as a run whose emission succeeded.
C24_MetricFailureNeverFailsTheRun ==
    \A r \in Runs :
        MetricFailed(r) =>
            /\ pc[r] \in {"write_marker", "put_events", "done"}
            /\ result[r].status = "raised"
                   => result[r].at \in {"write_marker", "put_events"}
            /\ result[r].status = "returned" =>
                   /\ result[r].message = "processed"
                   /\ result[r].valid_count = Len(recs[r].valid)
                   /\ result[r].invalid_count = Len(recs[r].invalid)
                   /\ Has(r, "put_marker") /\ MarkerExists(etag[r])
                   /\ processed_key[r] # NoKey =>
                          \E e \in EventsOf(r) : AnnouncesRun(e, r)
            /\ \A q \in Runs :
                   (/\ Has(q, "put_metric") /\ ev[q] = ev[r] /\ etag[q] = etag[r]
                    /\ result[q].status = "returned" /\ result[r].status = "returned")
                   => /\ result[q] = result[r]
                      /\ (EventsOf(q) = {}) <=> (EventsOf(r) = {})

\* a run whose metric emission failed has returned after writing the marker
\* and publishing its event
C24_Witness ==
    \E r \in Runs :
        /\ MetricFailed(r)
        /\ ProcessedRun(r)
        /\ EventsOf(r) # {}
        /\ Has(r, "put_marker")

(***************************************************************************)
(* The % change sentence of compute_aggregates (SpecAggregates).           *)
(***************************************************************************)
\* position, among the entries of the map, of the first whose
\* |percent_change| is the largest
FirstExtremal ==
    CHOOSE i \in 1..Len(agg_symbol_data) :
        /\ \A j \in 1..Len(agg_symbol_data) :
               Abs(agg_symbol_data[i][2].metrics.percent_change)
                   >= Abs(agg_symbol_data[j][2].metrics.percent_change)
        /\ \A j \in 1..(i - 1) :
               Abs(agg_symbol_data[j][2].metrics.percent_change)
                   < Abs(agg_symbol_data[i][2].metrics.percent_change)

ChangeSentences ==
    SelectSeq(aggregates.aggregates, LAMBDA st : st.category = "percent_change")

\* C28: for a non-empty symbol map whose entries all carry metrics,
\* compute_aggregates returns, and its % change sentence names the first
\* symbol of largest |percent_change|, as 'gainer' when that symbol's
\* percent_change is positive and as 'loser' when it is negative.
C28_ChangeLeaderNamedWithItsDirection ==
    (Aggregated /\ agg_symbol_data # <<>> /\ AllCarryMetrics) =>
        /\ aggregates.status = "returned"
        /\ Len(ChangeSentences) = 1
        /\ ChangeSentences[1].symbol = agg_symbol_data[FirstExtremal][1]
        /\ agg_symbol_data[FirstExtremal][2].metrics.percent_change > 0
               => ChangeSentences[1].direction = "gainer"
        /\ agg_symbol_data[FirstExtremal][2].metrics.percent_change < 0
               => ChangeSentences[1].direction = "loser"

\* C29: no series makes compute_metrics append the 'Record high close'
\* anomaly, so a computed anomalies list has at most two entries.
C29_RecordHighIsNeverAppended ==
    Succeeded =>
        /\ ~HasAnomaly("Record high close on")
        /\ Len(metrics.ret.anomalies) <= 2

\* a computed series of 5 or more points whose latest close is the one
\* highest close of the window
C29_Witness ==
    /\ Succeeded
    /\ Len(Closes) >= 5
    /\ \A i \in 2..5 : Closes[1] > Closes[i]
    /\ metrics.ret.volatility > 0
    /\ HasAnomaly("Sharp price movement on")

(***************************************************************************)
(* Retried ingest runs and the IngestorCompleted event (SpecIngest).       *)
(***************************************************************************)
\* the scheduler has retried run r: a later run was invoked with its event
Retried(r) == \E q \in Runs : q > r /\ pc[q] # "idle" /\ ev[q] = ev[r]

\* every run invoked has ended and every run that raised has been retried:
\* the scheduler has nothing left to invoke
Settled ==
    /\ \A r \in Runs : pc[r] \in {"idle", "done"}
    /\ \A r \in Runs : result[r].status = "raised" => Retried(r)

ValidPartitions == {o \in objects : o.key.prefix = PROCESSED_PREFIX}

EventPublishedFor(e) == \E x \in events : etag[x.by] = e

\* C26: when the scheduler retries every failed run, every batch whose valid
\* partition was persisted has its IngestorCompleted event published in the
\* end, also when the first run's put_events failed after its marker was
\* written: once the scheduler has nothing left to retry, no persisted
\* valid partition is left without the event of its batch.
C26_PersistedBatchIsAnnouncedAfterRetries ==
    Settled => \A o \in ValidPartitions : EventPublishedFor(etag[o.by])

(***************************************************************************)
(* Properties of the analyze lambda_handler (SpecAnalyze).                 *)
(***************************************************************************)
AnalyzeDone == an_pc = "done"

\* call_bedrock handed back an analysis: the decoded object of a response
GotAnalysis ==
    /\ an_output # NotRun
    /\ an_output.status = "returned"
    /\ an_output.payload.kind = "object"

\* enrichment failed: call_bedrock raised, or ran out of attempts
EnrichmentFailed ==
    /\ an_output # NotRun
    /\ (an_output.status = "raised" \/ an_output.payload = PyNone)

\* C21: an analyze run puts the CombinedRecord at most once, and only after
\* call_bedrock has returned an analysis; when enrichment failed (it raised,
\* or it ran out of attempts) nothing is put, and the handler ends by
\* raising.
C21_PersistedOnceAndOnlyAfterEnrichment ==
    /\ Len(an_table) <= 1
    /\ an_table # <<>> => GotAnalysis
    /\ EnrichmentFailed => an_table = <<>>
    /\ EnrichmentFailed /\ AnalyzeDone => an_result.status = "raised"

\* the run whose enrichment ran out of attempts has ended, by raising from
\* store_analysis
C21_Witness ==
    /\ AnalyzeDone
    /\ an_output # NotRun
    /\ an_output.payload = PyNone
    /\ an_result = RaisedAt("AttributeError", "key_anomalies")
    /\ an_table = <<>>

\* YYYY-MM-DD as a number that grows with the date
DayNumber(s) ==
    ToNat(SubSeq(s, 1, 4)) * 10000 + ToNat(SubSeq(s, 6, 7)) * 100
    + ToNat(SubSeq(s, 9, 10))

NewestFirst(series) ==
    \A j \in 1..Len(series) : \A k \in (j + 1)..Len(series) :
        DayNumber(series[j].datetime.s) >= DayNumber(series[k].datetime.s)

\* C22: every series the handler passes to compute_metrics is ordered
\* newest-first by datetime, whatever the order of the records in the
\* partition.
C22_SeriesAreNewestFirst ==
    \A i \in 1..Len(an_symbol_data) : NewestFirst(an_symbol_data[i][2].values)

IsDegraded(entry) ==
    /\ entry.metrics.trend = "unknown"
    /\ Len(entry.metrics.anomalies) = 1
    /\ entry.metrics.anomalies[1].text = "Computation failed:"

SomeSymbolDegraded ==
    \E i \in 1..Len(an_symbol_data) : IsDegraded(an_symbol_data[i][2])

\* C23: when the metrics of some symbol fell back to the degraded Metrics,
\* the run still completes the aggregation and goes on to enrichment; it
\* raises only at enrichment or at storage.
C23_DegradedSymbolDoesNotAbortTheRun ==
    SomeSymbolDegraded =>
        /\ an_aggregates.status = "returned"
        /\ an_result.status = "raised" =>
               an_result.at \in {"call_bedrock", "key_anomalies", "insights",
                                 "put_item"}

SymbolsAnalyzed(rec) == {rec.symbols_analyzed[i] : i \in 1..Len(rec.symbols_analyzed)}

NamesOutsideSymbol ==
    /\ GotAnalysis
    /\ \E symbol \in an_output.payload.symbols : symbol \notin keys(an_symbol_data)

\* C30: the insights of every CombinedRecord put are keyed by symbols of its
\* symbols_analyzed; when the enrichment result names a symbol outside the
\* symbols of the run, nothing is put and the run ends by raising.
C30_InsightsAreAboutAnalyzedSymbols ==
    /\ \A i \in 1..Len(an_table) :
           an_table[i].insights \subseteq SymbolsAnalyzed(an_table[i])
    /\ NamesOutsideSymbol => an_table = <<>>
    /\ NamesOutsideSymbol /\ AnalyzeDone => an_result.status = "raised"

\* a well-formed enrichment result naming a symbol outside the run's has
\* ended the run in the KeyError of the insights
C30_Witness ==
    /\ AnalyzeDone
    /\ NamesOutsideSymbol
    /\ an_output.complete
    /\ an_result = RaisedAt("KeyError", "insights")
    /\ an_table = <<>>

(***************************************************************************)
(* Properties of deserialize_dynamodb_item (SpecDeserialize).              *)
(***************************************************************************)
TypeTags == {"S", "N", "BOOL", "L", "M", "NULL"}

Tagged(val) == isinstance_dict(val) /\ \E j \in 1..Len(val.xs) : val.xs[j][1] \in TypeTags

\* the unwrapped form of a value: the raw value of S, N and BOOL, the list
\* of the unwrapped elements of L, the map of the unwrapped values of M,
\* None for NULL, and the value itself when it carries no type tag
RECURSIVE Unwrapped(_)
Unwrapped(val) ==
    IF ~Tagged(val) THEN val
    ELSE LET j == CHOOSE j \in 1..Len(val.xs) : val.xs[j][1] \in TypeTags
             tag == val.xs[j][1]
             v == val.xs[j][2]
         IN  CASE tag \in {"S", "N", "BOOL"} -> v
               [] tag = "L" -> V_list([e \in 1..Len(v.xs) |-> Unwrapped(v.xs[e])])
               [] tag = "M" -> V_dict([e \in 1..Len(v.xs) |->
                                          <<v.xs[e][1], Unwrapped(v.xs[e][2])>>])
               [] tag = "NULL" -> V_none

\* C25: deserialize_dynamodb_item keeps the top-level keys of the image, in
\* order, and gives each the unwrapped form of its value, at every depth
\* of nesting.
C25_EveryAttributeIsUnwrapped ==
    deserialized # NotRun =>
        /\ Len(deserialized.ret.xs) = Len(new_image.xs)
        /\ \A j \in 1..Len(new_image.xs) :
               /\ deserialized.ret.xs[j][1] = new_image.xs[j][1]
               /\ deserialized.ret.xs[j][2] = Unwrapped(new_image.xs[j][2])

\* a map holding a list of a number and a null has been unwrapped
C25_Witness ==
    /\ new_image = V_dict(<< <<"row_counts",
                              A_M(<< <<"raw", A_L(<< A_N("1"), A_NULL >>)>> >>)>> >>)
    /\ deserialized # NotRun
    /\ deserialized.ret =
           V_dict(<< <<"row_counts",
                       V_dict(<< <<"raw", V_list(<< V_str("1"), V_none >>)>> >>)>> >>)

(***************************************************************************)
(* Properties of the notifier handler (SpecNotifier).                      *)
(***************************************************************************)
IsInsert(i) == nf_event[i].eventName = "INSERT"

\* the positions of the INSERT records among the first n, in order
RECURSIVE InsertsUpTo(_)
InsertsUpTo(n) ==
    IF n = 0 THEN <<>>
    ELSE IF IsInsert(n) THEN Append(InsertsUpTo(n - 1), n) ELSE InsertsUpTo(n - 1)

Mailed == [i \in 1..Len(sent) |-> sent[i].record]

\* C27: unless the mail service refuses a message, the handler has sent, when
\* it ends, exactly one email per INSERT record of the event, in record
\* order, and none for another record; the INSERT of a CombinedRecord whose
\* row counts arrive as number attributes is among them.
C27_OneEmailPerInsertRecord ==
    nf_result.status \in {"returned", "raised"} /\ nf_result.exc # "ClientError"
        => Mailed = InsertsUpTo(Len(nf_event))

====
